---------------------------- MODULE Spec2Model ----------------------------
(***************************************************************************)
(* A model of secp256k1-voi: the curve arithmetic (package secp256k1) and  *)
(* the ECDH / ECDSA / BIP-0340 Schnorr protocols on top of it (package     *)
(* secec).                                                                 *)
(*                                                                         *)
(* The arithmetic is scaled down so that it can be enumerated: the curve   *)
(* is still y^2 = x^3 + 7 over a prime field with p = 3 (mod 4) and        *)
(* p = 1 (mod 3), of prime order n < p, but p = 163 and n = 139 take the   *)
(* place of the 256 bit parameters.  A byte holds ByteBits = 4 bits, a     *)
(* window (nibble) WindowBits = 2 bits, and a scalar or coordinate is      *)
(* ScalarSize = 2 bytes, so that, as in the library, n and p are above     *)
(* half of the largest value an encoding can hold, some x coordinates are  *)
(* >= n, and every byte splits in two windows.  All byte strings are       *)
(* big-endian sequences of values in 0 .. ByteBase - 1.                    *)
(*                                                                         *)
(* SHA-256 and cSHAKE256 are external to the library; they are modelled    *)
(* by a deterministic mixing function over the bytes they absorb.          *)
(***************************************************************************)
EXTENDS Integers, Sequences, FiniteSets, TLC

-----------------------------------------------------------------------------
(* Sizes *)

WindowBits == 2

ByteBits == 2 * WindowBits

ByteBase == 2 ^ ByteBits

WindowBase == 2 ^ WindowBits

ScalarSize == 2

CoordSize == ScalarSize

ElementSize == ScalarSize

CompressedPointSize == CoordSize + 1

PointSize == 2 * CoordSize + 1

IdentityPointSize == 1

prefixIdentity == 0

prefixCompressedEven == 2

prefixCompressedOdd == 3

prefixUncompressed == 4

Byte == 0 .. (ByteBase - 1)

\* F applied to the value of v: the value is bound before F is entered, so
\* that the passes of a loop are evaluated one after the other.
Then(v, F(_)) == CHOOSE out \in {F(x) : x \in {v}} : TRUE

RECURSIVE BytesOfLen(_)
BytesOfLen(len) ==
    IF len = 0 THEN {<< >>}
    ELSE {<<b>> \o t : b \in Byte, t \in BytesOfLen(len - 1)}

\* The big-endian integer a byte string encodes.
RECURSIVE BytesToInt(_)
BytesToInt(bs) ==
    IF Len(bs) = 0 THEN 0
    ELSE BytesToInt(SubSeq(bs, 1, Len(bs) - 1)) * ByteBase + bs[Len(bs)]

\* The big-endian encoding of v in exactly len bytes.
IntToBytes(v, len) ==
    [i \in 1 .. len |-> (v \div (ByteBase ^ (len - i))) % ByteBase]

ZeroBytes(len) == [i \in 1 .. len |-> 0]

\* copy(tmp[offset:], src) into a zeroed array of `size` bytes.
CopyAt(size, offset, src) ==
    [i \in 1 .. size |->
        IF i > offset /\ i - offset <= Len(src) THEN src[i - offset] ELSE 0]

RECURSIVE XorInt(_, _)
XorInt(a, b) ==
    IF a = 0 THEN b
    ELSE IF b = 0 THEN a
    ELSE ((a + b) % 2) + 2 * XorInt(a \div 2, b \div 2)

\* subtle.XORBytes
XORBytes(x, y) == [i \in 1 .. Len(x) |-> XorInt(x[i], y[i])]

-----------------------------------------------------------------------------
(* internal/field: arithmetic modulo p *)

P == 163

Element == 0 .. (P - 1)

FeAdd(a, b) == (a + b) % P

FeSub(a, b) == (a - b + P) % P

FeNegate(a) == (P - a) % P

FeMul(a, b) == (a * b) % P

FeSquare(a) == (a * a) % P

RECURSIVE FePow(_, _)
FePow(a, e) ==
    IF e = 0 THEN 1
    ELSE IF e % 2 = 0 THEN FePow(FeSquare(a), e \div 2)
    ELSE FeMul(a, FePow(FeSquare(a), e \div 2))

\* The values F(lo), .. F(hi) as a sequence.
RECURSIVE TableOf(_, _, _)
TableOf(F(_), lo, hi) ==
    IF lo = hi THEN <<F(lo)>>
    ELSE TableOf(F, lo, (lo + hi) \div 2) \o TableOf(F, (lo + hi) \div 2 + 1, hi)

\* Element.Invert: 0 for 0, the inverse otherwise.
FeInvertTable == TableOf(LAMBDA a : FePow(a, P - 2), 0, P - 1)

FeInvert(a) == FeInvertTable[a + 1]

FeIsOdd(a) == a % 2

\* Element.Sqrt: (root, 1) when a is a square, (0, 0) otherwise.  As
\* p = 3 (mod 4) the candidate root is a^((p+1)/4).
FeSqrtOf(a) ==
    LET r == FePow(a, (P + 1) \div 4)
    IN  IF FeSquare(r) = a THEN <<r, 1>> ELSE <<0, 0>>

FeSqrtTable == TableOf(FeSqrtOf, 0, P - 1)

FeSqrt(a) == FeSqrtTable[a + 1]

\* field.BytesAreCanonical / saturatedInRange: the encoded value is < p.
BytesAreCanonical(src) == BytesToInt(src) < P

\* field.NewElementFromCanonicalBytes
NewElementFromCanonicalBytes(src) ==
    IF BytesToInt(src) < P
    THEN [ok |-> TRUE, fe |-> BytesToInt(src)]
    ELSE [ok |-> FALSE, fe |-> 0]

FeBytes(a) == IntToBytes(a, ElementSize)

-----------------------------------------------------------------------------
(* scalar.go: arithmetic modulo n *)

N == 139

halfN == N \div 2

Scalar == 0 .. (N - 1)

ScAdd(a, b) == (a + b) % N

ScSubtract(a, b) == (a - b + N) % N

ScNegate(a) == (N - a) % N

ScMultiply(a, b) == (a * b) % N

RECURSIVE ScPow(_, _)
ScPow(a, e) ==
    IF e = 0 THEN 1
    ELSE IF e % 2 = 0 THEN ScPow(ScMultiply(a, a), e \div 2)
    ELSE ScMultiply(a, ScPow(ScMultiply(a, a), e \div 2))

ScInvertTable == TableOf(LAMBDA a : ScPow(a, N - 2), 0, N - 1)

\* Scalar.Invert
ScInvert(a) == ScInvertTable[a + 1]

\* Scalar.IsZero
ScIsZero(a) == IF a = 0 THEN 1 ELSE 0

\* Scalar.Equal
ScEqual(a, b) == IF a = b THEN 1 ELSE 0

\* Scalar.ConditionalSelect: a iff ctrl = 0, b otherwise.
ScConditionalSelect(a, b, ctrl) == IF ctrl = 0 THEN a ELSE b

\* A faulty ConditionalNegate that never negates.
ScConditionalNegateNever(a, ctrl) == a

\* Scalar.ConditionalNegate
ScConditionalNegate(a, ctrl) == ScConditionalSelect(a, ScNegate(a), ctrl)

\* The limbs of a scalar, here of one byte each, least significant first.
ScSaturated(s) == [i \in 1 .. ScalarSize |-> (s \div ByteBase ^ (i - 1)) % ByteBase]

\* The limbs of n/2.
halfNSat == ScSaturated(halfN)

\* bits.Sub64 on limbs of one byte: the difference x - y - borrow modulo
\* the size of a limb, and the borrow out.
Sub64(x, y, borrow) ==
    [diff |-> (x + ByteBase - y - borrow) % ByteBase,
     borrow |-> IF x < y + borrow THEN 1 ELSE 0]

\* The chain of subtractions nm - halfNSat from limb i up: the last
\* borrow, and the limbs of the difference or-ed together.
RECURSIVE subHalfN(_, _, _, _)
subHalfN(nm, i, borrow, diffOr) ==
    IF i > ScalarSize THEN [borrow |-> borrow, diffOr |-> diffOr]
    ELSE LET sub == Sub64(nm[i], halfNSat[i], borrow)
         IN  subHalfN(nm, i + 1, sub.borrow,
                      IF sub.diff # 0 THEN 1 ELSE diffOr)

\* A faulty Scalar.IsGreaterThanHalfN that looks at the borrow alone.
IsGreaterThanHalfNByBorrow(s) ==
    IF subHalfN(ScSaturated(s), 1, 0, 0).borrow = 0 THEN 1 ELSE 0

\* Scalar.IsGreaterThanHalfN: the borrow and the difference of s - n/2.
IsGreaterThanHalfN(s) ==
    LET sub == subHalfN(ScSaturated(s), 1, 0, 0)
    IN  IF sub.borrow = 0 /\ sub.diffOr # 0 THEN 1 ELSE 0

\* Scalar.SetBytes: the value reduced modulo n, and whether it was reduced.
ScSetBytes(src) ==
    LET v == BytesToInt(src)
    IN  [s |-> v % N, didReduce |-> IF v >= N THEN 1 ELSE 0]

\* Scalar.SetCanonicalBytes / NewScalarFromCanonicalBytes
NewScalarFromCanonicalBytes(src) ==
    IF ScSetBytes(src).didReduce # 0
    THEN [ok |-> FALSE, s |-> 0]
    ELSE [ok |-> TRUE, s |-> ScSetBytes(src).s]

\* Scalar.Bytes
ScBytes(s) == IntToBytes(s, ScalarSize)

-----------------------------------------------------------------------------
(* point.go: points in projective coordinates (X, Y, Z), x = X/Z, y = Y/Z, *)
(* with the flag isValid that every constructed point carries.             *)

gX == 2

gY == 34

feB == 7

feB3 == FeMul(3, feB)

\* Point.Identity / NewIdentityPoint
IdentityPoint == [x |-> 0, y |-> 1, z |-> 0, isValid |-> TRUE]

\* Point.Generator / NewGeneratorPoint
GeneratorPoint == [x |-> gX, y |-> gY, z |-> 1, isValid |-> TRUE]

\* Point.addComplete: the complete addition of Renes-Costello-Batina,
\* Algorithm 7 (a = 0).
addComplete(p, q) ==
    LET t0 == FeMul(p.x, q.x)
        t1 == FeMul(p.y, q.y)
        t2 == FeMul(p.z, q.z)
        t3 == FeSub(FeMul(FeAdd(p.x, p.y), FeAdd(q.x, q.y)), FeAdd(t0, t1))
        t4 == FeSub(FeMul(FeAdd(p.y, p.z), FeAdd(q.y, q.z)), FeAdd(t1, t2))
        xz == FeSub(FeMul(FeAdd(p.x, p.z), FeAdd(q.x, q.z)), FeAdd(t0, t2))
        t0x3 == FeAdd(FeAdd(t0, t0), t0)
        bt2  == FeMul(feB3, t2)
        zs   == FeAdd(t1, bt2)
        t1m  == FeSub(t1, bt2)
        by   == FeMul(feB3, xz)
    IN  [p EXCEPT !.x = FeSub(FeMul(t3, t1m), FeMul(t4, by)),
                  !.y = FeAdd(FeMul(t1m, zs), FeMul(by, t0x3)),
                  !.z = FeAdd(FeMul(zs, t4), FeMul(t0x3, t3))]

\* Point.addMixed: Algorithm 8, the second operand is affine (Z = 1).  The
\* formula is wrong when the affine operand stands for the identity.
addMixed(p, x2, y2) ==
    LET t0 == FeMul(p.x, x2)
        t1 == FeMul(p.y, y2)
        t3 == FeSub(FeMul(FeAdd(x2, y2), FeAdd(p.x, p.y)), FeAdd(t0, t1))
        t4 == FeAdd(FeMul(y2, p.z), p.y)
        xz == FeAdd(FeMul(x2, p.z), p.x)
        t0x3 == FeAdd(FeAdd(t0, t0), t0)
        bt2  == FeMul(feB3, p.z)
        zs   == FeAdd(t1, bt2)
        t1m  == FeSub(t1, bt2)
        by   == FeMul(feB3, xz)
    IN  [p EXCEPT !.x = FeSub(FeMul(t3, t1m), FeMul(t4, by)),
                  !.y = FeAdd(FeMul(t1m, zs), FeMul(by, t0x3)),
                  !.z = FeAdd(FeMul(zs, t4), FeMul(t0x3, t3))]

\* Point.doubleComplete: Algorithm 9 (a = 0).
doubleComplete(p) ==
    LET yy  == FeSquare(p.y)
        z8  == FeMul(8, yy)
        yz  == FeMul(p.y, p.z)
        bzz == FeMul(feB3, FeSquare(p.z))
        x3a == FeMul(bzz, z8)
        y3a == FeAdd(yy, bzz)
        t0  == FeSub(yy, FeMul(3, bzz))
    IN  [p EXCEPT !.x = FeMul(2, FeMul(t0, FeMul(p.x, p.y))),
                  !.y = FeAdd(FeMul(t0, y3a), x3a),
                  !.z = FeMul(yz, z8)]

\* Point.Add
\* assertPointsValid comes first; an operand that fails it yields a point
\* that is not valid.
PointAdd(p, q) ==
    IF ~(p.isValid /\ q.isValid) THEN [p EXCEPT !.isValid = FALSE]
    ELSE addComplete(p, q)

\* Point.Double
PointDouble(p) == doubleComplete(p)

\* Point.Negate
PointNegate(p) == [p EXCEPT !.y = FeNegate(p.y)]

\* Point.uncheckedConditionalSelect: a iff ctrl = 0, b otherwise.
PointConditionalSelect(a, b, ctrl) == IF ctrl = 0 THEN a ELSE b

\* Point.ConditionalNegate
PointConditionalNegate(p, ctrl) ==
    PointConditionalSelect(p, PointNegate(p), ctrl)

\* Point.Equal: X1*Z2 = X2*Z1 and Y1*Z2 = Y2*Z1.
PointEqual(v, p) ==
    IF FeMul(v.x, p.z) = FeMul(p.x, v.z) /\ FeMul(v.y, p.z) = FeMul(p.y, v.z)
    THEN 1 ELSE 0

\* Point.IsIdentity
IsIdentity(v) == IF v.z = 0 THEN 1 ELSE 0

\* Point.rescale: the same point with Z = 1.
rescale(v) ==
    [v EXCEPT !.x = FeMul(v.x, FeInvert(v.z)),
              !.y = FeMul(v.y, FeInvert(v.z)),
              !.z = FeMul(v.z, FeInvert(v.z))]

\* The curve equation Y^2 * Z = X^3 + 7 * Z^3.
IsOnCurve(v) ==
    FeMul(FeSquare(v.y), v.z) =
        FeAdd(FeMul(FeSquare(v.x), v.x), FeMul(feB, FeMul(FeSquare(v.z), v.z)))

-----------------------------------------------------------------------------
(* point_s11n.go: the SEC 1 encodings *)

\* Point.UncompressedBytes
UncompressedBytes(v) ==
    IF IsIdentity(v) = 1 THEN <<prefixIdentity>>
    ELSE <<prefixUncompressed>> \o FeBytes(rescale(v).x) \o FeBytes(rescale(v).y)

\* A faulty Point.CompressedBytes that takes the parity of Y as it is
\* held, without rescaling.
CompressedBytesUnscaledY(v) ==
    IF IsIdentity(v) = 1 THEN <<prefixIdentity>>
    ELSE <<IF FeIsOdd(v.y) = 1 THEN prefixCompressedOdd
                               ELSE prefixCompressedEven>>
         \o FeBytes(rescale(v).x)

\* Point.CompressedBytes
CompressedBytes(v) ==
    IF IsIdentity(v) = 1 THEN <<prefixIdentity>>
    ELSE <<IF FeIsOdd(rescale(v).y) = 1 THEN prefixCompressedOdd
                                         ELSE prefixCompressedEven>>
         \o FeBytes(rescale(v).x)

\* Point.XBytes: the x coordinate, or an error for the point at infinity.
XBytes(v) ==
    IF IsIdentity(v) = 1 THEN [ok |-> FALSE, bytes |-> << >>]
    ELSE [ok |-> TRUE, bytes |-> FeBytes(rescale(v).x)]

maybeYY(x) == FeAdd(FeMul(FeSquare(x), x), feB)

maybeXXXPlus7(y) == FeSquare(y)

SetBytesFail == [ok |-> FALSE, pt |-> IdentityPoint]

\* A faulty Point.SetBytes that does not check the curve equation of an
\* uncompressed point.
SetBytesUnchecked(src) ==
    IF Len(src) = IdentityPointSize THEN
        IF src[1] # prefixIdentity THEN SetBytesFail
        ELSE [ok |-> TRUE, pt |-> IdentityPoint]
    ELSE IF Len(src) = CompressedPointSize THEN
        IF src[1] # prefixCompressedOdd /\ src[1] # prefixCompressedEven
        THEN SetBytesFail
        ELSE LET xr == NewElementFromCanonicalBytes(SubSeq(src, 2, 1 + CoordSize))
                 yr == FeSqrt(maybeYY(xr.fe))
                 tagEq == IF FeIsOdd(yr[1]) = src[1] % 2 THEN 1 ELSE 0
             IN  IF ~xr.ok THEN SetBytesFail
                 ELSE IF yr[2] # 1 THEN SetBytesFail
                 ELSE [ok |-> TRUE,
                       pt |-> [x |-> xr.fe,
                               y |-> IF tagEq = 0 THEN FeNegate(yr[1]) ELSE yr[1],
                               z |-> 1, isValid |-> TRUE]]
    ELSE IF Len(src) = PointSize THEN
        IF src[1] # prefixUncompressed THEN SetBytesFail
        ELSE LET xr == NewElementFromCanonicalBytes(SubSeq(src, 2, 1 + CoordSize))
                 yr == NewElementFromCanonicalBytes(
                           SubSeq(src, 2 + CoordSize, 1 + 2 * CoordSize))
             IN  IF ~xr.ok THEN SetBytesFail
                 ELSE IF ~yr.ok THEN SetBytesFail
                 ELSE [ok |-> TRUE,
                       pt |-> [x |-> xr.fe, y |-> yr.fe, z |-> 1, isValid |-> TRUE]]
    ELSE SetBytesFail

\* Point.SetBytes / NewPointFromBytes
SetBytes(src) ==
    IF Len(src) = IdentityPointSize THEN
        IF src[1] # prefixIdentity THEN SetBytesFail
        ELSE [ok |-> TRUE, pt |-> IdentityPoint]
    ELSE IF Len(src) = CompressedPointSize THEN
        IF src[1] # prefixCompressedOdd /\ src[1] # prefixCompressedEven
        THEN SetBytesFail
        ELSE LET xr == NewElementFromCanonicalBytes(SubSeq(src, 2, 1 + CoordSize))
                 yr == FeSqrt(maybeYY(xr.fe))
                 tagEq == IF FeIsOdd(yr[1]) = src[1] % 2 THEN 1 ELSE 0
             IN  IF ~xr.ok THEN SetBytesFail
                 ELSE IF yr[2] # 1 THEN SetBytesFail
                 ELSE [ok |-> TRUE,
                       pt |-> [x |-> xr.fe,
                               y |-> IF tagEq = 0 THEN FeNegate(yr[1]) ELSE yr[1],
                               z |-> 1, isValid |-> TRUE]]
    ELSE IF Len(src) = PointSize THEN
        IF src[1] # prefixUncompressed THEN SetBytesFail
        ELSE LET xr == NewElementFromCanonicalBytes(SubSeq(src, 2, 1 + CoordSize))
                 yr == NewElementFromCanonicalBytes(
                           SubSeq(src, 2 + CoordSize, 1 + 2 * CoordSize))
             IN  IF ~xr.ok THEN SetBytesFail
                 ELSE IF ~yr.ok THEN SetBytesFail
                 ELSE IF maybeYY(xr.fe) # maybeXXXPlus7(yr.fe) THEN SetBytesFail
                 ELSE [ok |-> TRUE,
                       pt |-> [x |-> xr.fe, y |-> yr.fe, z |-> 1, isValid |-> TRUE]]
    ELSE SetBytesFail

-----------------------------------------------------------------------------
(* point_table.go, point_mul.go: windowed scalar multiplication *)

\* Entries of a window table: the multiples 1P .. (WindowBase - 1)P.
TableEntries == WindowBase - 1

\* newProjectivePointMultTable: tbl[i] = 2 * tbl[i/2], tbl[i+1] = tbl[i] + p
\* for i = 1, 3, ... (0-based); here the sequence is 1-based.
RECURSIVE buildProjectiveTable(_, _)
buildProjectiveTable(tbl, p) ==
    IF Len(tbl) >= TableEntries THEN tbl
    ELSE LET i == Len(tbl)
             d == doubleComplete(tbl[(i \div 2) + 1])
         IN  buildProjectiveTable(tbl \o <<d, addComplete(d, p)>>, p)

newProjectivePointMultTable(p) == buildProjectiveTable(<<p>>, p)

\* lookupProjectivePoint: the constant time scan over all entries.
RECURSIVE lookupProjectivePoint(_, _, _, _)
lookupProjectivePoint(tbl, addend, idx, i) ==
    IF i > TableEntries THEN addend
    ELSE lookupProjectivePoint(
             tbl,
             PointConditionalSelect(addend, tbl[i], IF idx = i THEN 1 ELSE 0),
             idx, i + 1)

\* projectivePointMultTable.SelectAndAdd
ProjectiveSelectAndAdd(tbl, sum, idx) ==
    addComplete(sum, lookupProjectivePoint(tbl, IdentityPoint, idx, 1))

\* projectivePointMultTable.SelectAndAddVartime
ProjectiveSelectAndAddVartime(tbl, sum, idx) ==
    IF idx = 0 THEN sum ELSE addComplete(sum, tbl[idx])

\* lookupAffinePoint: the constant time scan, (0, 0) for index 0.
RECURSIVE lookupAffinePoint(_, _, _, _)
lookupAffinePoint(tbl, out, idx, i) ==
    IF i > TableEntries THEN out
    ELSE lookupAffinePoint(tbl, IF idx = i THEN tbl[i] ELSE out, idx, i + 1)

\* A faulty affinePointMultTable.SelectAndAdd that returns the mixed
\* addition whatever the index.
AffineSelectAndAddUnmasked(tbl, sum, idx) ==
    LET sel == lookupAffinePoint(tbl, [x |-> 0, y |-> 0], idx, 1)
    IN  addMixed(sum, sel.x, sel.y)

\* affinePointMultTable.SelectAndAdd: the mixed addition is computed for
\* every index, and discarded when the index is zero.
AffineSelectAndAdd(tbl, sum, idx) ==
    LET isInfinity == IF idx = 0 THEN 1 ELSE 0
        sel == lookupAffinePoint(tbl, [x |-> 0, y |-> 0], idx, 1)
        tmp == addMixed(sum, sel.x, sel.y)
    IN  PointConditionalSelect(tmp, sum, isInfinity)

\* affinePointMultTable.SelectAndAddVartime
AffineSelectAndAddVartime(tbl, sum, idx) ==
    IF idx = 0 THEN sum ELSE addMixed(sum, tbl[idx].x, tbl[idx].y)

RECURSIVE doubleTimes(_, _)
doubleTimes(p, k) == IF k = 0 THEN p ELSE doubleComplete(doubleTimes(p, k - 1))

\* One window of newLargeAffinePointMultTable: base, then tmp = tmp + base
\* rescaled, for each further entry.
RECURSIVE buildAffineWindow(_, _, _)
buildAffineWindow(win, tmp, base) ==
    IF Len(win) >= TableEntries THEN win
    ELSE LET nxt == rescale(addMixed(tmp, base.x, base.y))
         IN  buildAffineWindow(win \o <<[x |-> nxt.x, y |-> nxt.y]>>, nxt, base)

\* newLargeAffinePointMultTable: window i holds the multiples of
\* WindowBase^i * p; the base is doubled WindowBits times between windows.
RECURSIVE buildLargeAffineTable(_, _)
buildLargeAffineTable(tbl, base) ==
    IF Len(tbl) >= ScalarSize * 2 THEN tbl
    ELSE buildLargeAffineTable(
             tbl \o <<buildAffineWindow(<<[x |-> base.x, y |-> base.y]>>, base, base)>>,
             rescale(doubleTimes(base, WindowBits)))

newLargeAffinePointMultTable(p) ==
    buildLargeAffineTable(<< >>, IF p.z = 1 THEN p ELSE rescale(p))

generatorAffineTable == newLargeAffinePointMultTable(GeneratorPoint)

\* The loop of Point.ScalarMult over the bytes of the scalar, most
\* significant first: WindowBits doublings before every window but the
\* first, then the constant time lookup and addition.
RECURSIVE scalarMultLoop(_, _, _, _)
scalarMultLoop(tbl, v, bytes, i) ==
    IF i > Len(bytes) THEN v
    ELSE LET v1 == IF i # 1 THEN doubleTimes(v, WindowBits) ELSE v
             v2 == ProjectiveSelectAndAdd(tbl, v1, bytes[i] \div WindowBase)
             v3 == doubleTimes(v2, WindowBits)
             v4 == ProjectiveSelectAndAdd(tbl, v3, bytes[i] % WindowBase)
         IN  Then(v4, LAMBDA w : scalarMultLoop(tbl, w, bytes, i + 1))

\* Point.ScalarMult
ScalarMult(s, p) ==
    scalarMultLoop(newProjectivePointMultTable(p), IdentityPoint, ScBytes(s), 1)

RECURSIVE scalarMultVartimeLoop(_, _, _, _)
scalarMultVartimeLoop(tbl, v, bytes, i) ==
    IF i > Len(bytes) THEN v
    ELSE LET v1 == IF i # 1 THEN doubleTimes(v, WindowBits) ELSE v
             v2 == ProjectiveSelectAndAddVartime(tbl, v1, bytes[i] \div WindowBase)
             v3 == doubleTimes(v2, WindowBits)
             v4 == ProjectiveSelectAndAddVartime(tbl, v3, bytes[i] % WindowBase)
         IN  Then(v4, LAMBDA w : scalarMultVartimeLoop(tbl, w, bytes, i + 1))

\* Point.scalarMultVartime
scalarMultVartime(s, p) ==
    scalarMultVartimeLoop(newProjectivePointMultTable(p), IdentityPoint,
                          ScBytes(s), 1)

\* The loop of Point.ScalarBaseMult: the table index runs down from the
\* last window, two windows per byte (1-based here).
RECURSIVE scalarBaseMultLoop(_, _, _, _)
scalarBaseMultLoop(v, bytes, i, tableIndex) ==
    IF i > Len(bytes) THEN v
    ELSE LET v1 == AffineSelectAndAdd(generatorAffineTable[tableIndex], v,
                                      bytes[i] \div WindowBase)
             v2 == AffineSelectAndAdd(generatorAffineTable[tableIndex - 1], v1,
                                      bytes[i] % WindowBase)
         IN  Then(v2, LAMBDA w : scalarBaseMultLoop(w, bytes, i + 1, tableIndex - 2))

ScalarBaseMultOf(s) ==
    scalarBaseMultLoop(IdentityPoint, ScBytes(s), 1, Len(generatorAffineTable))

ScalarBaseMultTable == TableOf(ScalarBaseMultOf, 0, N - 1)

\* Point.ScalarBaseMult
ScalarBaseMult(s) == ScalarBaseMultTable[s + 1]

RECURSIVE scalarBaseMultVartimeLoop(_, _, _, _)
scalarBaseMultVartimeLoop(v, bytes, i, tableIndex) ==
    IF i > Len(bytes) THEN v
    ELSE LET v1 == AffineSelectAndAddVartime(generatorAffineTable[tableIndex], v,
                                             bytes[i] \div WindowBase)
             v2 == AffineSelectAndAddVartime(generatorAffineTable[tableIndex - 1],
                                             v1, bytes[i] % WindowBase)
         IN  Then(v2, LAMBDA w : scalarBaseMultVartimeLoop(w, bytes, i + 1, tableIndex - 2))

scalarBaseMultVartimeOf(s) ==
    scalarBaseMultVartimeLoop(IdentityPoint, ScBytes(s), 1,
                              Len(generatorAffineTable))

scalarBaseMultVartimeTable == TableOf(scalarBaseMultVartimeOf, 0, N - 1)

\* Point.scalarBaseMultVartime
scalarBaseMultVartime(s) == scalarBaseMultVartimeTable[s + 1]

\* Point.DoubleScalarMultBasepointVartime: u1 * G + u2 * p.
DoubleScalarMultBasepointVartime(u1, u2, p) ==
    PointAdd(scalarBaseMultVartime(u1), scalarMultVartime(u2, p))

-----------------------------------------------------------------------------
(* The state: the key objects the caller holds, the call in progress and    *)
(* the result of the last completed call.                                   *)

VARIABLES
    key,    \* the PrivateKey the caller holds, or NoKey
    peer,   \* a second PrivateKey (the other party of an exchange), or NoKey
    pc,     \* "idle", or "signLoop" inside the rejection loop of sign
    frame,  \* the locals of the sign call in progress
    res,    \* what the last completed call returned
    prev    \* history: what the call before it returned

vars == <<key, peer, pc, frame, res, prev>>

-----------------------------------------------------------------------------
(* crypto/sha256, x/crypto/sha3 and io: external to the library.  A hash    *)
(* state is a number that every absorbed byte is mixed into.                *)

Mix(st, b) == ((st + b + 1) * (st + b + 1) + 131 * st + b) % 32749

RECURSIVE Absorb(_, _)
Absorb(st, bytes) ==
    IF Len(bytes) = 0 THEN st
    ELSE Absorb(Mix(st, bytes[1]), SubSeq(bytes, 2, Len(bytes)))

\* The strings the library hashes, as numbers to absorb.
StringCode(str) ==
    CASE str = "Honorary Debian/Sony RNG mitigation" -> 1
      [] str = "BIP0340-Sign" -> 2
      [] str = "ECDSA-Sign" -> 3
      [] str = "BIP0340/aux" -> 4
      [] str = "BIP0340/nonce" -> 5
      [] str = "BIP0340/challenge" -> 6
      [] OTHER -> 7

\* The digest of a hash state: as many bytes as a scalar has.
Digest(st) == IntToBytes(Mix(Mix(st, 11), 13) % (ByteBase ^ ScalarSize), ScalarSize)

\* sha256.Sum256
Sha256(bytes) == Digest(Absorb(Mix(17, Len(bytes)), bytes))

\* sha3.NewCShake256(nil, custom): a reader over the squeezed stream.
NewCShake256(custom) == [kind |-> "xof", st |-> Mix(29, custom), pos |-> 0, data |-> << >>]

\* xof.Write
XofWrite(xof, bytes) == [xof EXCEPT !.st = Absorb(Mix(xof.st, Len(bytes)), bytes)]

\* Byte j (from 0) of the stream squeezed from state st.
XofByte(st, j) == Mix(Mix(st, j), 19) % ByteBase

\* A reader that yields zeros forever (zeroReader of the tests).
zeroReader == [kind |-> "zero", st |-> 0, pos |-> 0, data |-> << >>]

\* bytes.NewReader(data), `pos` bytes of it already consumed.
BytesReader(data, pos) == [kind |-> "bytes", st |-> 0, pos |-> pos, data |-> data]

\* No reader: the nil io.Reader.
nilReader == [kind |-> "nil", st |-> 0, pos |-> 0, data |-> << >>]

\* A reader that yields `data` over and over.
CycleReader(data) == [kind |-> "cycle", st |-> 0, pos |-> 0, data |-> data]

\* io.ReadFull(rd, buf[:len]): the bytes, the reader afterwards, and ok =
\* FALSE when the reader ends before len bytes are read.
ReadFull(rd, len) ==
    IF rd.kind = "zero" THEN [ok |-> TRUE, bytes |-> ZeroBytes(len), rd |-> rd]
    ELSE IF rd.kind = "cycle" THEN
        [ok |-> TRUE,
         bytes |-> [i \in 1 .. len |->
                       rd.data[((rd.pos + i - 1) % Len(rd.data)) + 1]],
         rd |-> [rd EXCEPT !.pos = (rd.pos + len) % Len(rd.data)]]
    ELSE IF rd.kind = "xof" THEN
        [ok |-> TRUE,
         bytes |-> [i \in 1 .. len |-> XofByte(rd.st, rd.pos + i - 1)],
         rd |-> [rd EXCEPT !.pos = rd.pos + len]]
    ELSE IF Len(rd.data) - rd.pos >= len THEN
        [ok |-> TRUE,
         bytes |-> SubSeq(rd.data, rd.pos + 1, rd.pos + len),
         rd |-> [rd EXCEPT !.pos = rd.pos + len]]
    ELSE [ok |-> FALSE, bytes |-> << >>, rd |-> [rd EXCEPT !.pos = Len(rd.data)]]

-----------------------------------------------------------------------------
(* secec.go: keys *)

NoKey == [scalar |-> 0]

\* splitUncompressedPoint: the x bytes and the low bit of the last y byte.
splitUncompressedPoint(ptBytes) ==
    [xBytes |-> SubSeq(ptBytes, 2, 1 + CoordSize),
     yIsOdd |-> ptBytes[Len(ptBytes)] % 2]

\* PublicKey.isYOdd
isYOdd(pub) == pub.pointBytes[PointSize] % 2

\* A faulty newSchnorrPublicKeyFromPrivateKey that keeps the y of the
\* public point.
newSchnorrPublicKeyFromPrivateKeyKeepsY(sk) ==
    [point  |-> sk.publicKey.point,
     xBytes |-> splitUncompressedPoint(sk.publicKey.pointBytes).xBytes]

\* newSchnorrPublicKeyFromPrivateKey: the public point, negated iff its y
\* is odd, and its x bytes.
newSchnorrPublicKeyFromPrivateKey(sk) ==
    LET sp == splitUncompressedPoint(sk.publicKey.pointBytes)
    IN  [point  |-> PointConditionalNegate(sk.publicKey.point, sp.yIsOdd),
         xBytes |-> sp.xBytes]

\* newPrivateKeyFromScalar: the caller ensures s is in [1, n).
newPrivateKeyFromScalar(s) ==
    LET pt  == ScalarBaseMult(s)
        pub == [point |-> pt, pointBytes |-> UncompressedBytes(pt)]
    IN  [scalar |-> s,
         publicKey |-> pub,
         schnorrPublicKey |->
             newSchnorrPublicKeyFromPrivateKey([scalar |-> s, publicKey |-> pub])]

\* A faulty NewPrivateKey that takes the bytes modulo n.
NewPrivateKeyReducing(keyBytes) ==
    IF Len(keyBytes) # ScalarSize
    THEN [err |-> "invalid private key size", key |-> NoKey]
    ELSE LET sr == ScSetBytes(keyBytes)
         IN  IF ScIsZero(sr.s) # 0
             THEN [err |-> "invalid private key", key |-> NoKey]
             ELSE [err |-> "", key |-> newPrivateKeyFromScalar(sr.s)]

\* NewPrivateKey
NewPrivateKey(keyBytes) ==
    IF Len(keyBytes) # ScalarSize
    THEN [err |-> "invalid private key size", key |-> NoKey]
    ELSE LET sr == ScSetBytes(keyBytes)
         IN  IF sr.didReduce # 0 \/ ScIsZero(sr.s) # 0
             THEN [err |-> "invalid private key", key |-> NoKey]
             ELSE [err |-> "", key |-> newPrivateKeyFromScalar(sr.s)]

\* NewPublicKey
NewPublicKey(keyBytes) ==
    LET pr == SetBytes(keyBytes)
    IN  IF ~pr.ok THEN [err |-> "invalid public key", pub |-> NoKey]
        ELSE IF IsIdentity(pr.pt) # 0
        THEN [err |-> "public key is the point at infinity", pub |-> NoKey]
        ELSE [err |-> "",
              pub |-> [point |-> pr.pt, pointBytes |-> UncompressedBytes(pr.pt)]]

\* NewPublicKeyFromPoint
NewPublicKeyFromPoint(point) ==
    IF IsIdentity(point) # 0
    THEN [err |-> "public key is the point at infinity", pub |-> NoKey]
    ELSE [err |-> "",
          pub |-> [point |-> point, pointBytes |-> UncompressedBytes(point)]]

\* A faulty ECDH that multiplies the generator instead of the remote point.
ECDHOfGenerator(k, remote) == XBytes(ScalarBaseMult(k.scalar))

\* PrivateKey.ECDH
ECDH(k, remote) == XBytes(ScalarMult(k.scalar, remote.point))

-----------------------------------------------------------------------------
(* ecdsa.go *)

\* The entropy sign draws from the caller (256 / 8 bytes in the library:
\* as many as a scalar has).
wantedEntropyBytes == ScalarSize

\* The shortest digest sign and verify take (16 bytes in the library: half
\* of a scalar).
minDigestLen == ScalarSize \div 2

\* A faulty hashToScalar that leaves a short digest at the left of the
\* buffer, so that it is padded on the right.
hashToScalarUnpadded(hash) == ScSetBytes(CopyAt(ScalarSize, 0, hash)).s

\* hashToScalar: the leftmost ScalarSize bytes of the digest, a shorter
\* digest padded on the left, reduced modulo n.
hashToScalar(hash) ==
    LET offset == IF Len(hash) < ScalarSize THEN ScalarSize - Len(hash) ELSE 0
    IN  ScSetBytes(CopyAt(ScalarSize, offset, hash)).s

\* A faulty bytesToCanonicalScalar that reduces a value of n or more
\* instead of rejecting it.
bytesToCanonicalScalarReducing(sBytes) ==
    IF Len(sBytes) > ScalarSize \/ Len(sBytes) = 0
    THEN [ok |-> FALSE, s |-> 0]
    ELSE [ok |-> TRUE, s |-> BytesToInt(sBytes) % N]

\* bytesToCanonicalScalar
bytesToCanonicalScalar(sBytes) ==
    IF Len(sBytes) > ScalarSize \/ Len(sBytes) = 0
    THEN [ok |-> FALSE, s |-> 0]
    ELSE LET offset == IF Len(sBytes) < ScalarSize
                       THEN ScalarSize - Len(sBytes) ELSE 0
         IN  NewScalarFromCanonicalBytes(CopyAt(ScalarSize, offset, sBytes))

\* A faulty mitigateDebianAndSony that hands back the caller's reader.
mitigateDebianAndSonyUnmixed(rand, k, hBytes) ==
    LET rd == ReadFull(rand, wantedEntropyBytes)
    IN  IF ~rd.ok
        THEN [err |-> "entropy source failure", xof |-> zeroReader, tmp |-> << >>]
        ELSE [err |-> "", xof |-> rd.rd, tmp |-> rd.bytes]

\* mitigateDebianAndSony: cSHAKE256 over the private scalar, the entropy
\* read from the caller's reader, and the digest.  The reader is handed to
\* io.ReadFull as it came: a nil one makes the call of its Read panic.
mitigateDebianAndSony(rand, k, hBytes) ==
    LET rd  == ReadFull(rand, wantedEntropyBytes)
        xof == NewCShake256(StringCode("Honorary Debian/Sony RNG mitigation"))
    IN  IF rand.kind = "nil"
        THEN [err |-> "panic: nil pointer dereference", xof |-> zeroReader,
              tmp |-> << >>]
        ELSE IF ~rd.ok
        THEN [err |-> "entropy source failure", xof |-> zeroReader, tmp |-> << >>]
        ELSE [err |-> "",
              xof |-> XofWrite(XofWrite(XofWrite(xof, ScBytes(k.scalar)),
                                        rd.bytes), hBytes),
              tmp |-> rd.bytes]

\* A faulty loop of sampleRandomScalar that gives up one draw later.
RECURSIVE sampleRandomScalarLoopNinth(_, _)
sampleRandomScalarLoopNinth(rand, i) ==
    IF i >= 9 THEN [err |-> "failed rejection sampling", s |-> 0, rd |-> rand]
    ELSE LET rd == ReadFull(rand, ScalarSize)
             sr == ScSetBytes(rd.bytes)
         IN  IF ~rd.ok
             THEN [err |-> "entropy source failure", s |-> 0, rd |-> rd.rd]
             ELSE IF sr.didReduce = 0 /\ ScIsZero(sr.s) = 0
             THEN [err |-> "", s |-> sr.s, rd |-> rd.rd]
             ELSE sampleRandomScalarLoopNinth(rd.rd, i + 1)

\* The loop of sampleRandomScalar: up to 8 draws, the first that is
\* neither reduced nor zero is returned.
RECURSIVE sampleRandomScalarLoop(_, _)
sampleRandomScalarLoop(rand, i) ==
    IF i >= 8 THEN [err |-> "failed rejection sampling", s |-> 0, rd |-> rand]
    ELSE LET rd == ReadFull(rand, ScalarSize)
             sr == ScSetBytes(rd.bytes)
         IN  IF ~rd.ok
             THEN [err |-> "entropy source failure", s |-> 0, rd |-> rd.rd]
             ELSE IF sr.didReduce = 0 /\ ScIsZero(sr.s) = 0
             THEN [err |-> "", s |-> sr.s, rd |-> rd.rd]
             ELSE sampleRandomScalarLoop(rd.rd, i + 1)

\* sampleRandomScalar
sampleRandomScalar(rand) == sampleRandomScalarLoop(rand, 0)

\* A faulty step 6 that leaves the digest out: s = k^-1 (r * d).
signSWithoutDigest(r, d, e, kInv) == ScMultiply(ScMultiply(r, d), kInv)

\* sign, step 6: s = k^-1 (e + r * d) mod n.
signS(r, d, e, kInv) == ScMultiply(ScAdd(ScMultiply(r, d), e), kInv)

\* A faulty step 7 that returns s as computed.
signCanonicalSKeepsHigh(s) == s

\* sign, step 7: s is replaced by -s when it is greater than n/2.
signCanonicalS(s) == ScConditionalSelect(s, ScNegate(s), IsGreaterThanHalfN(s))

\* verify: (sGtHalfOrder, err).
verify(q, hBytes, rBytes, sBytes) ==
    LET r    == bytesToCanonicalScalar(rBytes)
        s    == bytesToCanonicalScalar(sBytes)
        sGtHalfOrder == IsGreaterThanHalfN(s.s)
        e    == hashToScalar(hBytes)
        sInv == ScInvert(s.s)
        u1   == ScMultiply(e, sInv)
        u2   == ScMultiply(r.s, sInv)
        R    == DoubleScalarMultBasepointVartime(u1, u2, q.point)
        v    == ScSetBytes(XBytes(R).bytes).s
    IN  IF ~r.ok \/ ScIsZero(r.s) # 0
        THEN [sGtHalfOrder |-> 0, err |-> "errInvalidScalar"]
        ELSE IF ~s.ok \/ ScIsZero(s.s) # 0
        THEN [sGtHalfOrder |-> 0, err |-> "errInvalidScalar"]
        ELSE IF Len(hBytes) < minDigestLen
        THEN [sGtHalfOrder |-> sGtHalfOrder, err |-> "errInvalidDigest"]
        ELSE IF IsIdentity(R) # 0
        THEN [sGtHalfOrder |-> sGtHalfOrder, err |-> "errRIsInfinity"]
        ELSE IF ScEqual(v, r.s) # 1
        THEN [sGtHalfOrder |-> sGtHalfOrder, err |-> "errVNeqR"]
        ELSE [sGtHalfOrder |-> sGtHalfOrder, err |-> ""]

\* cryptobyte's ASN.1 INTEGER, as parseASN1Signature hands it to verify:
\* the big-endian bytes of a non-negative integer without leading zeros,
\* one zero byte for zero.
RECURSIVE asn1IntegerBytes(_)
asn1IntegerBytes(v) ==
    IF v < ByteBase THEN <<v>>
    ELSE asn1IntegerBytes(v \div ByteBase) \o <<v % ByteBase>>

\* PublicKey.VerifyASN1, after the signature is parsed into r and s.
VerifyASN1(q, hash, r, s) ==
    verify(q, hash, asn1IntegerBytes(r), asn1IntegerBytes(s)).err = ""

\* PublicKey.VerifyASN1Shitcoin, after the signature is parsed.
VerifyASN1Shitcoin(q, hash, r, s) ==
    LET vr == verify(q, hash, asn1IntegerBytes(r), asn1IntegerBytes(s))
    IN  vr.err = "" /\ vr.sGtHalfOrder = 0

-----------------------------------------------------------------------------
(* Public key recovery.  The recovery id that sign returns, and              *)
(* RecoverPublicKey, follow the specification of the library (sections 4.C   *)
(* and 4.E).                                                                 *)

\* Point.IsYOdd: the parity of the affine y coordinate.
PointIsYOdd(v) == FeIsOdd(rescale(v).y)

\* A faulty recovery id whose bit 0 is not flipped when s is negated.
signRecoveryIDWithoutFlip(didReduce, yIsOdd, negated) == didReduce * 2 + yIsOdd

\* sign, steps 4 and 5: (did_reduce << 1) | parity(y_R), bit 0 flipped
\* when s was negated.
signRecoveryID(didReduce, yIsOdd, negated) ==
    XorInt(didReduce * 2 + yIsOdd, negated)

\* recover_point: bit 0 of the id is the parity of y, bit 1 tells that
\* x = r + n.
RecoverPoint(r, recoveryID) ==
    LET x  == IF recoveryID \div 2 = 1 THEN r + N ELSE r
        yr == FeSqrt(maybeYY(x))
    IN  IF x >= P THEN [ok |-> FALSE, pt |-> IdentityPoint]
        ELSE IF yr[2] # 1 THEN [ok |-> FALSE, pt |-> IdentityPoint]
        ELSE [ok |-> TRUE,
              pt |-> [x |-> x,
                      y |-> IF FeIsOdd(yr[1]) = recoveryID % 2
                            THEN yr[1] ELSE FeNegate(yr[1]),
                      z |-> 1, isValid |-> TRUE]]

\* RecoverPublicKey: Q = r^-1 (s R - e G).
RecoverPublicKey(hash, r, s, recoveryID) ==
    LET R    == RecoverPoint(r, recoveryID)
        e    == hashToScalar(hash)
        rInv == ScInvert(r)
        u1   == ScNegate(ScMultiply(e, rInv))
        u2   == ScMultiply(s, rInv)
        Q    == DoubleScalarMultBasepointVartime(u1, u2, R.pt)
    IN  IF ScIsZero(r) # 0 \/ ScIsZero(s) # 0
        THEN [err |-> "errInvalidRorS", pub |-> NoKey]
        ELSE IF recoveryID \notin 0 .. 3
        THEN [err |-> "invalid recovery id", pub |-> NoKey]
        ELSE IF Len(hash) < minDigestLen
        THEN [err |-> "errInvalidDigest", pub |-> NoKey]
        ELSE IF ~R.ok THEN [err |-> "invalid recovery id", pub |-> NoKey]
        ELSE NewPublicKeyFromPoint(Q)

-----------------------------------------------------------------------------
(* The inputs the caller chooses from *)

\* The longest digest handed to sign and verify.
MaxDigestLen == 3

\* Passes through the rejection loop of sign that are followed.
MaxSignIterations == 3

DigestBytes == {0, 9}

RECURSIVE DigestsOfLen(_)
DigestsOfLen(len) ==
    IF len = 0 THEN {<< >>}
    ELSE {<<b>> \o t : b \in DigestBytes, t \in DigestsOfLen(len - 1)}

Digests == UNION {DigestsOfLen(len) : len \in 0 .. MaxDigestLen}

\* The caller's entropy sources: zeros forever, a reader with enough
\* bytes, the same reader half consumed (zeros are left), and one with too
\* few bytes.
Readers ==
    {zeroReader,
     BytesReader(<<1, 2>> \o ZeroBytes(wantedEntropyBytes), 0),
     BytesReader(<<1, 2>> \o ZeroBytes(wantedEntropyBytes), 2),
     BytesReader(<<7>>, 0)}

KeyBytes == BytesOfLen(ScalarSize) \cup {<<1>>}

-----------------------------------------------------------------------------
(* The calls *)

NoRes == [op |-> "none"]

NoFrame ==
    [rand |-> zeroReader, h |-> << >>, e |-> 0, fixedRng |-> zeroReader,
     tmp |-> << >>, iter |-> 0]

Init ==
    /\ key = NoKey
    /\ peer = NoKey
    /\ pc = "idle"
    /\ frame = NoFrame
    /\ res = NoRes
    /\ prev = NoRes

\* priv, err := NewPrivateKey(keyBytes)
NewKey(keyBytes) ==
    /\ pc = "idle"
    /\ key = NoKey
    /\ key' = NewPrivateKey(keyBytes).key
    /\ res' = [op |-> "NewPrivateKey", err |-> NewPrivateKey(keyBytes).err]
    /\ UNCHANGED <<peer, pc, frame, prev>>

\* What sign returns with an error; with it, the reader and the digest the
\* call was given and the entropy it read.
SignFailed(err, rand, h, tmp) ==
    [op |-> "sign", err |-> err, d |-> key.scalar, rand |-> rand, h |-> h,
     tmp |-> tmp,
     r |-> 0, s |-> 0, sRaw |-> 0, k |-> 0, R |-> IdentityPoint,
     didReduce |-> 0, recoveryID |-> 0]

\* sign, up to the rejection loop: the digest is checked and the nonce
\* stream is set up.
SignBegin(rand, hBytes) ==
    /\ pc = "idle"
    /\ key # NoKey
    /\ IF Len(hBytes) < minDigestLen
       THEN /\ res' = SignFailed("errInvalidDigest", rand, hBytes, << >>)
            /\ UNCHANGED <<pc, frame>>
       ELSE LET m == mitigateDebianAndSony(rand, key, hBytes)
            IN  IF m.err # ""
                THEN /\ res' = SignFailed(m.err, rand, hBytes, << >>)
                     /\ UNCHANGED <<pc, frame>>
                ELSE /\ pc' = "signLoop"
                     /\ frame' = [rand |-> rand, h |-> hBytes,
                                  e |-> hashToScalar(hBytes),
                                  fixedRng |-> m.xof, tmp |-> m.tmp, iter |-> 0]
                     /\ res' = NoRes
    /\ UNCHANGED <<key, peer>>

\* One pass through the rejection loop of sign, and what follows the loop
\* when the pass leaves it.
SignLoop ==
    /\ pc = "signLoop"
    /\ frame.iter < MaxSignIterations
    /\ LET sr   == sampleRandomScalar(frame.fixedRng)
           R    == ScalarBaseMult(sr.s)
           rr   == ScSetBytes(XBytes(R).bytes)
           kInv == ScInvert(sr.s)
           s    == signS(rr.s, key.scalar, frame.e, kInv)
           next == [frame EXCEPT !.fixedRng = sr.rd, !.iter = frame.iter + 1]
       IN  IF sr.err # ""
           THEN /\ res' = SignFailed("failed to generate k", frame.rand,
                                       frame.h, frame.tmp)
                /\ pc' = "idle"
                /\ frame' = NoFrame
           ELSE IF ScIsZero(rr.s) # 0
           THEN /\ frame' = next
                /\ UNCHANGED <<pc, res>>
           ELSE IF ScIsZero(s) # 0
           THEN /\ frame' = next
                /\ UNCHANGED <<pc, res>>
           ELSE /\ res' = [op |-> "sign", err |-> "", d |-> key.scalar,
                           rand |-> frame.rand, h |-> frame.h, tmp |-> frame.tmp,
                           r |-> rr.s, s |-> signCanonicalS(s), sRaw |-> s,
                           k |-> sr.s, R |-> R, didReduce |-> rr.didReduce,
                           recoveryID |->
                               signRecoveryID(rr.didReduce, PointIsYOdd(R),
                                              IsGreaterThanHalfN(s))]
                /\ pc' = "idle"
                /\ frame' = NoFrame
    /\ UNCHANGED <<key, peer, prev>>

\* priv.Sign(rand, hash)
Sign(rand, hBytes) == SignBegin(rand, hBytes) /\ UNCHANGED prev

NextSign ==
    \/ \E keyBytes \in KeyBytes : NewKey(keyBytes)
    \/ \E rand \in Readers, hBytes \in Digests : Sign(rand, hBytes)
    \/ SignLoop

SpecSign == Init /\ [][NextSign]_vars

-----------------------------------------------------------------------------
(* Properties of ECDSA signing *)

\* sign returned a signature.
Signed == res.op = "sign" /\ res.err = ""

\* C1: every (r, s) that sign returns without error, for any key, any digest
\* it accepts and any entropy, is accepted by verify under the public key
\* of the signing key.
C1_SignVerifies ==
    Signed =>
        /\ res.d = key.scalar
        /\ verify(key.publicKey, res.h,
                  asn1IntegerBytes(res.r), asn1IntegerBytes(res.s)).err = ""

\* A signature made with all-zero entropy, which verifies.
C1_Witness ==
    /\ Signed
    /\ res.tmp = ZeroBytes(wantedEntropyBytes)
    /\ VerifyASN1(key.publicKey, res.h, res.r, res.s)

\* C3: every signature sign returns has 1 <= r < n and 1 <= s <= n/2; s is
\* n minus the computed value exactly when the computed value is above n/2.
C3_LowS ==
    Signed =>
        /\ 1 <= res.r /\ res.r < N
        /\ 1 <= res.s /\ res.s <= N \div 2
        /\ 1 <= res.sRaw /\ res.sRaw < N
        /\ res.s = IF res.sRaw > N \div 2 THEN N - res.sRaw ELSE res.sRaw

\* A signature whose computed s was above n/2 and was replaced.
C3_Witness == Signed /\ res.sRaw > N \div 2 /\ res.s = N - res.sRaw

\* C4: the recovery id sign returns is in 0 .. 3, its bit 1 tells that
\* x_R >= n, its bit 0 is the parity of y_R flipped when s was negated, and
\* RecoverPublicKey of the signature and the id gives the signer's public key.
C4_RecoveryID ==
    Signed =>
        LET xR  == rescale(res.R).x
            yR  == rescale(res.R).y
            neg == IF res.sRaw > N \div 2 THEN 1 ELSE 0
            rec == RecoverPublicKey(res.h, res.r, res.s, res.recoveryID)
        IN  /\ res.recoveryID \in 0 .. 3
            /\ res.recoveryID \div 2 = (IF xR >= N THEN 1 ELSE 0)
            /\ res.recoveryID % 2 = (yR + neg) % 2
            /\ rec.err = ""
            /\ rec.pub.pointBytes = key.publicKey.pointBytes
            /\ PointEqual(rec.pub.point, key.publicKey.point) = 1

\* A signature with x_R >= n whose s was negated, and whose key is recovered.
C4_Witness ==
    /\ Signed
    /\ res.recoveryID \div 2 = 1
    /\ res.sRaw > N \div 2
    /\ RecoverPublicKey(res.h, res.r, res.s, res.recoveryID).err = ""

-----------------------------------------------------------------------------
(* ECDSA verification *)

\* The private keys whose public keys signatures are verified under.
VerifyKeyBytes == {ScBytes(1), ScBytes(77), ScBytes(N - 1)}

\* The digests signatures are verified over: too short, and the shortest
\* accepted.
VerifyDigests == {h \in Digests : Len(h) <= minDigestLen}

\* The integers r and s of the signatures handed to verify: every value up
\* to n and a few above, the largest a scalar encoding holds, and the
\* first that needs a longer encoding.
SignatureIntegers ==
    (0 .. (N + 2)) \cup {ByteBase ^ ScalarSize - 1, ByteBase ^ ScalarSize}

\* pub.VerifyASN1(hash, sig), sig the encoding of the integers r and s.
Verify(hBytes, r, s) ==
    /\ pc = "idle"
    /\ key # NoKey
    /\ res' = [op |-> "verify", h |-> hBytes, r |-> r, s |-> s,
               err |-> verify(key.publicKey, hBytes,
                              asn1IntegerBytes(r), asn1IntegerBytes(s)).err]
    /\ UNCHANGED <<key, peer, pc, frame, prev>>

\* A public key is built and one signature is verified under it, as the
\* test vectors are run.
NextVerify ==
    \/ \E keyBytes \in VerifyKeyBytes : NewKey(keyBytes)
    \/ /\ res.op = "NewPrivateKey"
       /\ \E hBytes \in VerifyDigests, r \in SignatureIntegers,
             s \in SignatureIntegers : Verify(hBytes, r, s)

SpecVerify == Init /\ [][NextVerify]_vars

\* The multiples 1 G .. (n - 1) G in affine coordinates, each from the one
\* before by the chord rule (the tangent rule for 2 G).
AffineSlope(p, q) ==
    LET num == IF p = q THEN 3 * p[1] * p[1] ELSE q[2] - p[2] + P
        den == IF p = q THEN 2 * p[2] ELSE q[1] - p[1] + P
        inv == CHOOSE t \in 1 .. (P - 1) : (t * (den % P)) % P = 1
    IN  ((num % P) * inv) % P

AffineSum(p, q) ==
    LET l == AffineSlope(p, q)
        x == (l * l + 2 * P - p[1] - q[1]) % P
    IN  <<x, (l * (p[1] + P - x) + P - p[2]) % P>>

\* The multiples m G, (m + 1) G, .. (m + count - 1) G, given first = m G.
RECURSIVE AffineMultiples(_, _)
AffineMultiples(first, count) ==
    IF count = 1 THEN <<first>>
    ELSE LET left == AffineMultiples(first, count \div 2)
         IN  left \o AffineMultiples(AffineSum(left[Len(left)], <<gX, gY>>),
                                     count - count \div 2)

MultiplesOfG == AffineMultiples(<<gX, gY>>, N - 1)

\* The inverse of a nonzero residue modulo n.
InverseModN(a) == CHOOSE t \in 1 .. (N - 1) : (t * a) % N = 1

\* The integer e of a digest: its leftmost ScalarSize bytes, modulo n.
DigestInteger(h) ==
    BytesToInt(IF Len(h) > ScalarSize THEN SubSeq(h, 1, ScalarSize) ELSE h) % N

\* With pk = d G, the R of verification is m G for
\* m = (e + r d) / s mod n.
VerifyMultiple(d, h, r, s) ==
    ((DigestInteger(h) + r * d) * InverseModN(s)) % N

\* C2: verify accepts exactly when r and s are in [1, n), the digest gives
\* an integer e, R = (e/s) G + (r/s) pk is not the identity and x_R mod n
\* is r; everything else is rejected with an error.
C2_VerifyAcceptsExactly ==
    res.op = "verify" =>
        /\ res.err \in {"", "errInvalidScalar", "errInvalidDigest",
                        "errRIsInfinity", "errVNeqR"}
        /\ (res.err = "") <=>
              /\ res.r \in 1 .. (N - 1)
              /\ res.s \in 1 .. (N - 1)
              /\ Len(res.h) >= minDigestLen
              /\ VerifyMultiple(key.scalar, res.h, res.r, res.s) # 0
              /\ MultiplesOfG[VerifyMultiple(key.scalar, res.h, res.r, res.s)][1] % N
                     = res.r

\* An accepted signature with s above n/2 whose R has x_R >= n.
C2_Witness ==
    /\ res.op = "verify"
    /\ res.err = ""
    /\ res.s > N \div 2
    /\ MultiplesOfG[VerifyMultiple(key.scalar, res.h, res.r, res.s)][1] >= N

-----------------------------------------------------------------------------
(* schnorr.go: BIP-0340 signatures.  The sizes follow the library's: a key  *)
(* and a message are as long as a coordinate, a signature twice that.       *)

SchnorrPublicKeySize == CoordSize

SchnorrSignatureSize == CoordSize + ScalarSize

SchnorrMessageSize == ScalarSize

schnorrEntropySize == ScalarSize

RECURSIVE ConcatAll(_)
ConcatAll(vals) ==
    IF Len(vals) = 0 THEN << >>
    ELSE vals[1] \o ConcatAll(SubSeq(vals, 2, Len(vals)))

\* schnorrTaggedHash: SHA-256 over the hashed tag, twice, and the values.
schnorrTaggedHash(tag, vals) ==
    LET hashedTag == Sha256(<<StringCode(tag)>>)
    IN  Sha256(hashedTag \o hashedTag \o ConcatAll(vals))

\* mitigateDebianAndSony with a domain separator, as SignSchnorr calls it:
\* the customisation string is "Honorary Debian/Sony RNG mitigation:" and
\* the context (section 4.E.2 of the specification).
mitigateDebianAndSonyCtx(rand, ctx, k, hBytes) ==
    LET rd  == ReadFull(rand, wantedEntropyBytes)
        xof == NewCShake256(
                   StringCode("Honorary Debian/Sony RNG mitigation") * ByteBase
                   + StringCode(ctx))
    IN  IF ~rd.ok
        THEN [err |-> "entropy source failure", xof |-> zeroReader, tmp |-> << >>]
        ELSE [err |-> "",
              xof |-> XofWrite(XofWrite(XofWrite(xof, ScBytes(k.scalar)),
                                        rd.bytes), hBytes),
              tmp |-> rd.bytes]

\* SchnorrPublicKey.Bytes
SchnorrPublicKeyBytes(k) == CopyAt(SchnorrPublicKeySize, 0, k.xBytes)

\* parseSchnorrSignature: (ok, s, e, sigRXBytes).
parseSchnorrSignature(pkXBytes, msg, sig) ==
    LET sigRXBytes == SubSeq(sig, 1, CoordSize)
        s  == NewScalarFromCanonicalBytes(
                  SubSeq(sig, CoordSize + 1, CoordSize + ScalarSize))
        e  == ScSetBytes(schnorrTaggedHash("BIP0340/challenge",
                                           <<sigRXBytes, pkXBytes, msg>>)).s
        no == [ok |-> FALSE, s |-> 0, e |-> 0, sigRXBytes |-> << >>]
    IN  IF Len(msg) # SchnorrMessageSize THEN no
        ELSE IF Len(sig) # SchnorrSignatureSize THEN no
        ELSE IF ~BytesAreCanonical(sigRXBytes) THEN no
        ELSE IF ~s.ok THEN no
        ELSE [ok |-> TRUE, s |-> s.s, e |-> e, sigRXBytes |-> sigRXBytes]

\* A faulty verifySchnorrSignatureR that takes an R of either parity.
verifySchnorrSignatureRAnyParity(sigRXBytes, R) ==
    IF IsIdentity(R) # 0 THEN FALSE
    ELSE splitUncompressedPoint(UncompressedBytes(R)).xBytes = sigRXBytes

\* verifySchnorrSignatureR: R is not the identity, has an even y, and its
\* x bytes are those of the signature.
verifySchnorrSignatureR(sigRXBytes, R) ==
    IF IsIdentity(R) # 0 THEN FALSE
    ELSE LET sp == splitUncompressedPoint(UncompressedBytes(R))
         IN  IF sp.yIsOdd # 0 THEN FALSE
             ELSE IF sp.xBytes # sigRXBytes THEN FALSE
             ELSE TRUE

\* verifySchnorrSelf: R = (s - d e) G.
verifySchnorrSelf(d, pkXBytes, msg, sig) ==
    LET ps == parseSchnorrSignature(pkXBytes, msg, sig)
        factor == ScSubtract(ps.s, ScMultiply(d, ps.e))
    IN  IF ~ps.ok THEN FALSE
        ELSE verifySchnorrSignatureR(ps.sigRXBytes, ScalarBaseMult(factor))

\* SchnorrPublicKey.Verify: R = s G - e P.
SchnorrPublicKeyVerify(k, msg, sig) ==
    LET ps == parseSchnorrSignature(k.xBytes, msg, sig)
        R  == DoubleScalarMultBasepointVartime(ps.s, ScNegate(ps.e), k.point)
    IN  IF Len(msg) # SchnorrMessageSize THEN FALSE
        ELSE IF Len(sig) # SchnorrSignatureSize THEN FALSE
        ELSE IF ~ps.ok THEN FALSE
        ELSE verifySchnorrSignatureR(ps.sigRXBytes, R)

NoSchnorrPublicKey == [point |-> IdentityPoint, xBytes |-> << >>]

\* NewSchnorrPublicKey: the key bytes are decompressed as a point with an
\* even y.
NewSchnorrPublicKey(keyBytes) ==
    LET pr == SetBytes(<<prefixCompressedEven>> \o keyBytes)
    IN  IF Len(keyBytes) # SchnorrPublicKeySize
        THEN [err |-> "invalid public key", pub |-> NoSchnorrPublicKey]
        ELSE IF ~pr.ok
        THEN [err |-> "failed to decompress public key", pub |-> NoSchnorrPublicKey]
        ELSE [err |-> "", pub |-> [point |-> pr.pt, xBytes |-> keyBytes]]

\* NewSchnorrPublicKeyFromPoint: any point but the identity, negated when
\* its y is odd.
NewSchnorrPublicKeyFromPoint(point) ==
    IF IsIdentity(point) # 0
    THEN [err |-> "public key is the point at infinity", pub |-> NoSchnorrPublicKey]
    ELSE LET pt == PointConditionalNegate(point, PointIsYOdd(point))
         IN  [err |-> "", pub |-> [point |-> pt, xBytes |-> XBytes(pt).bytes]]

\* What signSchnorr returns with an error.
SchnorrFailed(err) ==
    [err |-> err, sig |-> << >>, d |-> 0, negateD |-> 0, rYIsOdd |-> 0]

\* signSchnorr, from the self-verification on: the signature is returned
\* only when verifySchnorrSelf accepts it.
signSchnorrChecked(sk, msg, sp, d, rs, sig) ==
    IF ~verifySchnorrSelf(d, SchnorrPublicKeyBytes(sk.schnorrPublicKey), msg, sig)
    THEN SchnorrFailed("failed to verify sig")
    ELSE [err |-> "", sig |-> sig, d |-> d, negateD |-> sp.yIsOdd,
          rYIsOdd |-> rs.yIsOdd]

\* signSchnorr, from R = k' G on: k, the challenge e and
\* sig = bytes(R) || bytes((k + e d) mod n).
signSchnorrWithR(sk, msg, sp, d, kPrime, rs) ==
    LET k   == ScConditionalNegate(kPrime, rs.yIsOdd)
        e   == ScSetBytes(schnorrTaggedHash("BIP0340/challenge",
                                            <<rs.xBytes, sp.xBytes, msg>>)).s
        sum == ScAdd(k, ScMultiply(e, d))
    IN  signSchnorrChecked(sk, msg, sp, d, rs, rs.xBytes \o ScBytes(sum))

\* signSchnorr, from the nonce k' on: it fails when k' = 0.
signSchnorrWithNonce(sk, msg, sp, d, kPrime) ==
    IF ScIsZero(kPrime) # 0 THEN SchnorrFailed("k' = 0")
    ELSE signSchnorrWithR(
             sk, msg, sp, d, kPrime,
             splitUncompressedPoint(UncompressedBytes(ScalarBaseMult(kPrime))))

\* signSchnorr, from the signing scalar d on: the nonce is the tagged hash
\* of t || bytes(P) || m, t being bytes(d) xor the hashed auxiliary bytes.
signSchnorrWithD(auxRand, sk, msg, sp, d) ==
    LET t   == XORBytes(schnorrTaggedHash("BIP0340/aux", <<auxRand>>), ScBytes(d))
        rnd == schnorrTaggedHash("BIP0340/nonce", <<t, sp.xBytes, msg>>)
    IN  signSchnorrWithNonce(sk, msg, sp, d, ScSetBytes(rnd).s)

\* signSchnorr: the signature, with the signing scalar d and the two
\* parities it was made under.  d is the private scalar, negated when the
\* public key's y is odd.
signSchnorr(auxRand, sk, msg) ==
    LET sp == splitUncompressedPoint(sk.publicKey.pointBytes)
    IN  signSchnorrWithD(auxRand, sk, msg, sp,
                         ScConditionalNegate(sk.scalar, sp.yIsOdd))

\* PrivateKey.SignSchnorr
SignSchnorr(k, rand, msg) ==
    LET m   == mitigateDebianAndSonyCtx(rand, "BIP0340-Sign", k, msg)
        aux == ReadFull(m.xof, schnorrEntropySize)
    IN  IF Len(msg) # SchnorrMessageSize THEN SchnorrFailed("invalid message size")
        ELSE IF m.err # "" THEN SchnorrFailed(m.err)
        ELSE IF ~aux.ok THEN SchnorrFailed("entropy source failure")
        ELSE signSchnorr(aux.bytes, k, msg)

-----------------------------------------------------------------------------
(* Schnorr signing and the Schnorr public keys *)

\* The messages handed to SignSchnorr and Verify: two of the size of a
\* message, one shorter and one longer.
SchnorrMessages == {<<0, 0>>, <<9, 3>>, <<1>>, <<1, 2, 3>>}

\* The byte strings handed to NewSchnorrPublicKey.
SchnorrKeyBytes == BytesOfLen(SchnorrPublicKeySize) \cup {<<2>>, <<0, 2, 34>>}

\* The points handed to NewSchnorrPublicKeyFromPoint: every multiple of the
\* generator as the multiplication leaves it, the identity among them, and
\* the generator itself.
SchnorrKeyPoints == {ScalarBaseMult(s) : s \in Scalar} \cup {GeneratorPoint}

\* sig, err := priv.SignSchnorr(rand, msg)
SignSchnorrCall(rand, msg) ==
    /\ pc = "idle"
    /\ key # NoKey
    /\ LET sg == SignSchnorr(key, rand, msg)
       IN  res' = [op |-> "SignSchnorr", msg |-> msg, err |-> sg.err,
                   sig |-> sg.sig, d |-> sg.d, negateD |-> sg.negateD,
                   rYIsOdd |-> sg.rYIsOdd]
    /\ UNCHANGED <<key, peer, pc, frame, prev>>

\* pub, err := NewSchnorrPublicKey(keyBytes)
NewSchnorrPublicKeyCall(keyBytes) ==
    /\ pc = "idle"
    /\ key = NoKey
    /\ LET nk == NewSchnorrPublicKey(keyBytes)
       IN  res' = [op |-> "NewSchnorrPublicKey", err |-> nk.err, pub |-> nk.pub]
    /\ UNCHANGED <<key, peer, pc, frame, prev>>

\* pub, err := NewSchnorrPublicKeyFromPoint(point)
NewSchnorrPublicKeyFromPointCall(point) ==
    /\ pc = "idle"
    /\ key = NoKey
    /\ LET nk == NewSchnorrPublicKeyFromPoint(point)
       IN  res' = [op |-> "NewSchnorrPublicKeyFromPoint", err |-> nk.err,
                   pub |-> nk.pub, yIsOdd |-> PointIsYOdd(point)]
    /\ UNCHANGED <<key, peer, pc, frame, prev>>

NextSchnorr ==
    \/ \E keyBytes \in KeyBytes : NewKey(keyBytes)
    \/ \E rand \in Readers, msg \in SchnorrMessages : SignSchnorrCall(rand, msg)
    \/ \E keyBytes \in SchnorrKeyBytes : NewSchnorrPublicKeyCall(keyBytes)
    \/ \E point \in SchnorrKeyPoints : NewSchnorrPublicKeyFromPointCall(point)

SpecSchnorr == Init /\ [][NextSchnorr]_vars

\* SignSchnorr returned a signature.
SchnorrSigned == res.op = "SignSchnorr" /\ res.err = ""

\* C5: every signature SignSchnorr returns without error, for any key and
\* any message of the message size, has the signature size and is accepted
\* by Verify of the key's SchnorrPublicKey, whatever the parities of the y
\* of the public point and of the nonce point.
C5_SchnorrSignVerifies ==
    SchnorrSigned =>
        /\ Len(res.msg) = SchnorrMessageSize
        /\ Len(res.sig) = SchnorrSignatureSize
        /\ SchnorrPublicKeyVerify(key.schnorrPublicKey, res.msg, res.sig)

\* A signature made under a public point and a nonce point that both have
\* an odd y.
C5_Witness == SchnorrSigned /\ res.negateD = 1 /\ res.rYIsOdd = 1

\* The affine coordinates of a point that is not the identity.
AffineOf(v) ==
    <<(v.x * (CHOOSE t \in 1 .. (P - 1) : (t * v.z) % P = 1)) % P,
      (v.y * (CHOOSE t \in 1 .. (P - 1) : (t * v.z) % P = 1)) % P>>

\* d G is the point of a SchnorrPublicKey for the d with an even y among
\* the secret scalar and its negation.
EvenScalar(d) == IF MultiplesOfG[d][2] % 2 = 1 THEN N - d ELSE d

\* What a SchnorrPublicKey holds: a valid point on the curve that is not the
\* identity, whose y is even, and the encoding of its x.
SchnorrPublicKeyHolds(k) ==
    /\ k.point.isValid
    /\ k.point.z # 0
    /\ IsOnCurve(k.point)
    /\ AffineOf(k.point)[2] % 2 = 0
    /\ Len(k.xBytes) = SchnorrPublicKeySize
    /\ BytesToInt(k.xBytes) = AffineOf(k.point)[1]

\* C7: every SchnorrPublicKey that NewSchnorrPublicKey or
\* NewSchnorrPublicKeyFromPoint returns, or that a PrivateKey holds, has a
\* point that is not the identity, with an even y, whose x is encoded by the
\* stored bytes; and the scalar signSchnorr signs with is the secret scalar,
\* negated iff the public point has an odd y, and d G is that point.
C7_SchnorrPublicKeyInvariant ==
    /\ (res.op \in {"NewSchnorrPublicKey", "NewSchnorrPublicKeyFromPoint"}
            /\ res.err = "") => SchnorrPublicKeyHolds(res.pub)
    /\ key # NoKey =>
          /\ SchnorrPublicKeyHolds(key.schnorrPublicKey)
          /\ MultiplesOfG[EvenScalar(key.scalar)]
                 = AffineOf(key.schnorrPublicKey.point)
    /\ SchnorrSigned =>
          /\ res.d = EvenScalar(key.scalar)
          /\ res.negateD = MultiplesOfG[key.scalar][2] % 2

\* A signature made with the negated secret scalar, by a key whose public
\* point has an odd y.
C7_Witness ==
    /\ SchnorrSigned
    /\ res.d = N - key.scalar
    /\ AffineOf(key.publicKey.point)[2] % 2 = 1

-----------------------------------------------------------------------------
(* Schnorr verification *)

\* The integers r and s of the signatures handed to Verify: every value up
\* to the modulus and one above, and the largest the encoding holds.
SchnorrSignatureRs == (0 .. (P + 1)) \cup {ByteBase ^ CoordSize - 1}

SchnorrSignatureSs == (0 .. (N + 1)) \cup {ByteBase ^ ScalarSize - 1}

\* Signatures that do not have the signature size.
SchnorrShortSignatures == {<< >>, <<0, 2, 0>>, <<0, 2, 0, 1, 0>>}

\* ok := priv.SchnorrPublicKey().Verify(msg, sig)
SchnorrVerifyCall(msg, sig) ==
    /\ pc = "idle"
    /\ key # NoKey
    /\ res' = [op |-> "SchnorrVerify", msg |-> msg, sig |-> sig,
               ok |-> SchnorrPublicKeyVerify(key.schnorrPublicKey, msg, sig)]
    /\ UNCHANGED <<key, peer, pc, frame, prev>>

\* A key is built and one signature is verified under its SchnorrPublicKey.
NextSchnorrVerify ==
    \/ \E keyBytes \in VerifyKeyBytes : NewKey(keyBytes)
    \/ /\ res.op = "NewPrivateKey"
       /\ \/ \E msg \in SchnorrMessages, r \in SchnorrSignatureRs,
                s \in SchnorrSignatureSs :
                 SchnorrVerifyCall(msg, IntToBytes(r, CoordSize)
                                            \o IntToBytes(s, ScalarSize))
          \/ \E msg \in SchnorrMessages, sig \in SchnorrShortSignatures :
                 SchnorrVerifyCall(msg, sig)

SpecSchnorrVerify == Init /\ [][NextSchnorrVerify]_vars

\* The integer e of the challenge of a signature with the bytes rBytes,
\* under the public key with the x coordinate pX.
SchnorrChallenge(rBytes, pX, msg) ==
    BytesToInt(schnorrTaggedHash("BIP0340/challenge",
                                 <<rBytes, IntToBytes(pX, CoordSize), msg>>)) % N

\* With P = d G, R = s G - e P is m G for m = s - e d mod n.
SchnorrVerifyMultiple(d, rBytes, s, msg) ==
    (s + N * N - SchnorrChallenge(rBytes, MultiplesOfG[d][1], msg) * d) % N

-----------------------------------------------------------------------------
(* ECDH *)

\* The encodings handed to NewPublicKey as the remote party's key: every
\* compressed encoding, the encoding of the identity, the uncompressed
\* generator, and a string that is no encoding.
RemoteKeyBytes ==
    {<<prefix>> \o x : prefix \in {prefixCompressedEven, prefixCompressedOdd},
                       x \in BytesOfLen(CoordSize)}
    \cup {<<prefixIdentity>>, UncompressedBytes(GeneratorPoint), <<1, 2>>}

\* The second party generates its key.
NewPeer(keyBytes) ==
    /\ pc = "idle"
    /\ key # NoKey
    /\ peer = NoKey
    /\ NewPrivateKey(keyBytes).err = ""
    /\ peer' = NewPrivateKey(keyBytes).key
    /\ res' = [op |-> "NewPrivateKey", err |-> ""]
    /\ UNCHANGED <<key, pc, frame, prev>>

\* The two parties exchange the encodings of their public keys, and each
\* calls ECDH with its private key and the other's public key.
ECDHExchange ==
    /\ pc = "idle"
    /\ key # NoKey
    /\ peer # NoKey
    /\ LET alicePub == NewPublicKey(key.publicKey.pointBytes)
           bobPub   == NewPublicKey(peer.publicKey.pointBytes)
       IN  res' = [op |-> "ECDH", err |-> <<alicePub.err, bobPub.err>>,
                   aliceX |-> ECDH(key, bobPub.pub),
                   bobX |-> ECDH(peer, alicePub.pub)]
    /\ UNCHANGED <<key, peer, pc, frame, prev>>

\* pub, err := NewPublicKey(pubBytes); x, err := priv.ECDH(pub)
ECDHRemote(pubBytes) ==
    /\ pc = "idle"
    /\ key # NoKey
    /\ peer = NoKey
    /\ LET pub == NewPublicKey(pubBytes)
       IN  res' = [op |-> "ECDHRemote", err |-> pub.err, remote |-> pubBytes,
                   x |-> IF pub.err = "" THEN ECDH(key, pub.pub)
                         ELSE [ok |-> FALSE, bytes |-> << >>]]
    /\ UNCHANGED <<key, peer, pc, frame, prev>>

\* Keys are generated, and then one exchange is made with them.
NextECDH ==
    \/ \E keyBytes \in KeyBytes : NewKey(keyBytes)
    \/ /\ res.op = "NewPrivateKey"
       /\ \/ \E keyBytes \in KeyBytes : NewPeer(keyBytes)
          \/ ECDHExchange
          \/ \E pubBytes \in RemoteKeyBytes : ECDHRemote(pubBytes)

SpecECDH == Init /\ [][NextECDH]_vars

\* C8: the two ECDH calls of an exchange between two valid private keys
\* succeed and return the same x coordinate, of the size of a coordinate;
\* and ECDH of a valid private key and any valid public key succeeds, its
\* result is never the point at infinity.
C8_ECDHSymmetric ==
    /\ res.op = "ECDH" =>
          /\ res.err = <<"", "">>
          /\ res.aliceX.ok
          /\ res.bobX.ok
          /\ res.aliceX.bytes = res.bobX.bytes
          /\ Len(res.aliceX.bytes) = CoordSize
          /\ BytesToInt(res.aliceX.bytes)
                 = MultiplesOfG[(key.scalar * peer.scalar) % N][1]
    /\ (res.op = "ECDHRemote" /\ res.err = "") =>
          /\ res.x.ok
          /\ Len(res.x.bytes) = CoordSize

\* An exchange between two different private keys.
C8_Witness ==
    /\ res.op = "ECDH"
    /\ key.scalar # peer.scalar
    /\ res.aliceX.ok
    /\ res.aliceX.bytes = res.bobX.bytes

-----------------------------------------------------------------------------
(* Repeated signing *)

\* Entropy sources of which two yield the same bytes to a first read and
\* differ in what follows: zeros forever and zeros followed by other bytes;
\* a reader at its start and one that is partly consumed; and one with too
\* few bytes.
RepeatReaders ==
    {zeroReader,
     BytesReader(ZeroBytes(wantedEntropyBytes) \o <<5, 6>>, 0),
     BytesReader(<<1, 2>> \o ZeroBytes(wantedEntropyBytes), 0),
     BytesReader(<<3, 1, 2>>, 1),
     BytesReader(<<7>>, 0)}

RepeatDigests == {<< >>, <<9>>, <<0, 9, 9>>}

\* priv.Sign(rand, hash), after an earlier call whose result is kept.
SignAgain(rand, hBytes) == SignBegin(rand, hBytes) /\ prev' = res

NextRepeat ==
    \/ \E keyBytes \in VerifyKeyBytes : NewKey(keyBytes)
    \/ \E rand \in RepeatReaders, hBytes \in RepeatDigests : SignAgain(rand, hBytes)
    \/ SignLoop

SpecRepeat == Init /\ [][NextRepeat]_vars

\* Two calls of sign have returned, with the same key and digest and the
\* same bytes read from the two entropy sources.
SameSignInputs ==
    /\ pc = "idle"
    /\ res.op = "sign"
    /\ prev.op = "sign"
    /\ res.d = prev.d
    /\ res.h = prev.h
    /\ res.tmp = prev.tmp

\* C9: two calls of sign with the same key, the same digest and the same
\* bytes read from the entropy source return the same: the same error, or
\* the same r and s.
C9_SignDeterministic ==
    SameSignInputs =>
        /\ res.err = prev.err
        /\ res.r = prev.r
        /\ res.s = prev.s

\* Two signatures made from two different readers that yielded the same
\* bytes.
C9_Witness ==
    /\ SameSignInputs
    /\ res.err = ""
    /\ prev.err = ""
    /\ res.rand # prev.rand

-----------------------------------------------------------------------------
(* sampleRandomScalar on its own *)

\* The longest run of rejected candidates a reader starts with.
MaxCandidates == 9

\* Candidates sampleRandomScalar rejects: zero and n.
RejectedCandidates == {IntToBytes(0, ScalarSize), IntToBytes(N, ScalarSize)}

RECURSIVE RejectedRuns(_)
RejectedRuns(len) ==
    IF len = 0 THEN {<< >>}
    ELSE {c \o t : c \in RejectedCandidates, t \in RejectedRuns(len - 1)}

\* What follows the run: nothing, half a candidate, a candidate that is
\* taken (1 and n - 1), and the largest value followed by one that is taken.
SampleTails ==
    {<< >>, <<7>>, IntToBytes(1, ScalarSize), IntToBytes(N - 1, ScalarSize),
     IntToBytes(ByteBase ^ ScalarSize - 1, ScalarSize) \o IntToBytes(1, ScalarSize)}

\* The readers handed to sampleRandomScalar.
SampleReaders ==
    {BytesReader(run \o tail, 0) :
        run \in UNION {RejectedRuns(len) : len \in 0 .. MaxCandidates},
        tail \in SampleTails}
    \cup {zeroReader}

\* s, err := sampleRandomScalar(rand); with the result, the reader as the
\* call leaves it.
SampleCall(rand) ==
    /\ pc = "idle"
    /\ LET sr == sampleRandomScalar(rand)
       IN  res' = [op |-> "sampleRandomScalar", rand |-> rand, err |-> sr.err,
                   s |-> sr.s, rd |-> sr.rd]
    /\ UNCHANGED <<key, peer, pc, frame, prev>>

NextSample ==
    /\ res.op = "none"
    /\ \E rand \in SampleReaders : SampleCall(rand)

SpecSample == Init /\ [][NextSample]_vars

\* Candidate j (from 1) of a byte reader's data.
SampleCandidate(rand, j) ==
    SubSeq(rand.data, (j - 1) * ScalarSize + 1, j * ScalarSize)

\* The candidates sampleRandomScalar may take from a byte reader: the
\* first 8 whole ones that are canonical and not zero.
SampleAccepted(rand) ==
    {j \in 1 .. 8 :
        /\ j * ScalarSize <= Len(rand.data)
        /\ BytesToInt(SampleCandidate(rand, j)) \in 1 .. N - 1}

\* C12: sampleRandomScalar returns the first candidate that is canonical
\* and not zero, having read up to it and no further; when a read fails
\* before that it returns the entropy-source error and no scalar; when the
\* first 8 candidates are all rejected it returns the rejection-sampling
\* error and no scalar, having read exactly 8 candidates.
C12_SampleRandomScalar ==
    (res.op = "sampleRandomScalar" /\ res.rand.kind = "bytes") =>
        LET acc == SampleAccepted(res.rand)
        IN  IF acc # {}
            THEN LET j == CHOOSE a \in acc : \A b \in acc : a <= b
                 IN  /\ res.err = ""
                     /\ res.s = BytesToInt(SampleCandidate(res.rand, j))
                     /\ res.rd.pos = j * ScalarSize
            ELSE IF Len(res.rand.data) < 8 * ScalarSize
            THEN /\ res.err = "entropy source failure"
                 /\ res.s = 0
            ELSE /\ res.err = "failed rejection sampling"
                 /\ res.s = 0
                 /\ res.rd.pos = 8 * ScalarSize

\* Eight rejected candidates were followed by one that would have been
\* taken.
C12_Witness ==
    /\ res.op = "sampleRandomScalar"
    /\ res.rand.kind = "bytes"
    /\ res.err = "failed rejection sampling"
    /\ Len(res.rand.data) >= 9 * ScalarSize
    /\ BytesToInt(SampleCandidate(res.rand, 9)) \in 1 .. N - 1

-----------------------------------------------------------------------------
(* sign over any nonce stream.  The stream sign draws its nonces from is   *)
(* squeezed from cSHAKE256; here it is left open: any bytes may come.      *)

\* The streams the rejection loop of sign reads: one candidate over and
\* over, for every candidate that sampleRandomScalar takes, and zeros.
SignStreams ==
    {CycleReader(IntToBytes(k, ScalarSize) \o IntToBytes(k, ScalarSize)) :
        k \in 1 .. N - 1}
    \cup {zeroReader}

\* The digests signed over those streams.
SignStreamDigests == {<<9>>, <<0, 9, 9>>, <<9, 0>>}

\* sign up to its loop, the nonce stream being `stream`.
SignStreamBegin(stream, hBytes) ==
    /\ pc = "idle"
    /\ key # NoKey
    /\ Len(hBytes) >= minDigestLen
    /\ pc' = "signLoop"
    /\ frame' = [rand |-> zeroReader, h |-> hBytes, e |-> hashToScalar(hBytes),
                 fixedRng |-> stream, tmp |-> << >>, iter |-> 0]
    /\ res' = NoRes
    /\ UNCHANGED <<key, peer, prev>>

\* Steps 1 to 6 of sign for the nonce k: R = k G, r = x(R) mod n with the
\* bit telling whether x(R) was reduced, and s.
signPass(k, e, d) ==
    Then(ScalarBaseMult(k), LAMBDA R :
        Then(ScSetBytes(XBytes(R).bytes), LAMBDA rr :
            [R |-> R, r |-> rr.s, didReduce |-> rr.didReduce,
             s |-> signS(rr.s, d, e, ScInvert(k))]))

\* One pass through the loop of sign (`for { ... }`), which counts nothing:
\* it is left on an error of sampleRandomScalar and on r # 0 and s # 0,
\* and taken again otherwise.
SignStreamLoop ==
    /\ pc = "signLoop"
    /\ \E sr \in {sampleRandomScalar(frame.fixedRng)} :
          IF sr.err # ""
          THEN /\ res' = SignFailed("failed to generate k", frame.rand,
                                      frame.h, frame.tmp)
               /\ pc' = "idle"
               /\ frame' = NoFrame
          ELSE \E ps \in {signPass(sr.s, frame.e, key.scalar)} :
                  IF ScIsZero(ps.r) # 0 \/ ScIsZero(ps.s) # 0
                  THEN /\ frame' = [frame EXCEPT !.fixedRng = sr.rd]
                       /\ UNCHANGED <<pc, res>>
                  ELSE /\ res' = [op |-> "sign", err |-> "", d |-> key.scalar,
                                  rand |-> frame.rand, h |-> frame.h,
                                  tmp |-> frame.tmp, r |-> ps.r,
                                  s |-> signCanonicalS(ps.s), sRaw |-> ps.s,
                                  k |-> sr.s, R |-> ps.R,
                                  didReduce |-> ps.didReduce,
                                  recoveryID |->
                                      signRecoveryID(ps.didReduce,
                                                     PointIsYOdd(ps.R),
                                                     IsGreaterThanHalfN(ps.s))]
                       /\ pc' = "idle"
                       /\ frame' = NoFrame
    /\ UNCHANGED <<key, peer, prev>>

NextSignStream ==
    \/ \E keyBytes \in VerifyKeyBytes : NewKey(keyBytes)
    \/ \E stream \in SignStreams, hBytes \in SignStreamDigests :
           SignStreamBegin(stream, hBytes)
    \/ SignStreamLoop

\* A call of sign that has entered its loop keeps running.
SpecSignStream ==
    Init /\ [][NextSignStream]_vars /\ WF_vars(SignStreamLoop)

-----------------------------------------------------------------------------
(* Signing without a reader *)

\* priv.Sign(nil, hash)
SignNil(hBytes) == Sign(nilReader, hBytes)

NextNilRand ==
    \/ \E keyBytes \in KeyBytes : NewKey(keyBytes)
    \/ \E hBytes \in Digests : SignNil(hBytes)

SpecNilRand == Init /\ [][NextNilRand]_vars

\* sign was called with a nil reader and a digest it takes.
SignedNil ==
    /\ res.op = "sign"
    /\ res.rand.kind = "nil"
    /\ Len(res.h) >= minDigestLen

\* C14: ECDSA signing with a nil reader completes normally, with a
\* signature, instead of failing or panicking.
C14_NilRandSigns == SignedNil => res.err = ""

\* sign was called with a nil reader.
C14_Witness == SignedNil

-----------------------------------------------------------------------------
(* The digest in sign and verify *)

\* Digests of every kind: none, too short to be taken, shorter than a
\* scalar, as long as one, and longer.
DigestLengthDigests ==
    {<< >>, <<9>>, <<0, 9>>, <<9, 0>>, <<9, 0, 9>>, <<0, 9, 0>>}

\* The private keys digests are signed and verified under.
DigestKeyBytes == {ScBytes(1), ScBytes(77)}

NextDigest ==
    \/ \E keyBytes \in DigestKeyBytes : NewKey(keyBytes)
    \/ /\ res.op = "NewPrivateKey"
       /\ \E hBytes \in DigestLengthDigests, r \in 1 .. (N - 1),
             s \in 1 .. (N - 1) : Verify(hBytes, r, s)
    \/ /\ res.op = "NewPrivateKey"
       /\ \E rand \in Readers, hBytes \in DigestLengthDigests :
             Sign(rand, hBytes)
    \/ SignLoop

SpecDigest == Init /\ [][NextDigest]_vars

C16_TruncatedDigestRefused ==
    /\ (res.op = "sign" /\ Len(res.h) < ScalarSize) =>
          (res.err = "errInvalidDigest" /\ res.r = 0 /\ res.s = 0)
    /\ (res.op = "verify" /\ Len(res.h) < ScalarSize) => res.err # ""

\* sign returned a signature over a digest shorter than a scalar.
C16_Witness ==
    /\ Signed
    /\ Len(res.h) < ScalarSize
    /\ res.r # 0
    /\ res.s # 0

-----------------------------------------------------------------------------
(* bitcoin/ecdsa_shitcoin.go: BIP-0066 signatures.  A signature is a       *)
(* sequence of octets: the tags and lengths of DER, and the bytes of the   *)
(* two integers.  The parser of the encoding follows BIP-0066, which the   *)
(* specification of the library names as its ground (section 4.E.1).       *)

\* The DER tags, asn1.SEQUENCE and asn1.INTEGER.
asn1Sequence == 48

asn1Integer == 2

\* Whether the top bit of a byte is set.
HighBit(b) == b >= ByteBase \div 2

\* Builder.AddASN1BigInt for v >= 0: the shortest big-endian bytes, with a
\* zero byte before them when their top bit is set.
asn1BigInt(v) ==
    LET bytes   == asn1IntegerBytes(v)
        content == IF HighBit(bytes[1]) THEN <<0>> \o bytes ELSE bytes
    IN  <<asn1Integer, Len(content)>> \o content

\* buildASN1Signature: SEQUENCE { r INTEGER, s INTEGER }.
buildASN1Signature(r, s) ==
    LET body == asn1BigInt(r) \o asn1BigInt(s)
    IN  <<asn1Sequence, Len(body)>> \o body

\* The longest signature with its sighash byte (73 octets in the library).
maxSignatureSizeBIP0066 == 2 * (ScalarSize + 3) + 3

\* IsValidSignatureEncodingBIP0066: the checks of BIP-0066 on
\* 0x30 [total-length] 0x02 [R-length] [R] 0x02 [S-length] [S] [sighash].
IsValidSignatureEncodingBIP0066(sig) ==
    LET size == Len(sig)
        lenR == sig[4]
        lenS == sig[6 + lenR]
    IN  /\ size >= 9
        /\ size <= maxSignatureSizeBIP0066
        /\ sig[1] = asn1Sequence
        /\ sig[2] = size - 3
        /\ 5 + lenR < size
        /\ lenR + lenS + 7 = size
        /\ sig[3] = asn1Integer
        /\ lenR # 0
        /\ ~HighBit(sig[5])
        /\ ~(lenR > 1 /\ sig[5] = 0 /\ ~HighBit(sig[6]))
        /\ sig[lenR + 5] = asn1Integer
        /\ lenS # 0
        /\ ~HighBit(sig[lenR + 7])
        /\ ~(lenS > 1 /\ sig[lenR + 7] = 0 /\ ~HighBit(sig[lenR + 8]))

\* String.ReadASN1Integer into a byte slice: the leading zero byte of a
\* positive integer is dropped.
asn1IntegerContent(content) ==
    IF Len(content) > 1 /\ content[1] = 0
    THEN SubSeq(content, 2, Len(content)) ELSE content

\* parseASN1SignatureShitcoin: the encoding is checked, the sighash byte
\* is left aside, and r and s are read as scalars in [1, n).
parseASN1SignatureShitcoin(sig) ==
    IF ~IsValidSignatureEncodingBIP0066(sig)
    THEN [ok |-> FALSE, r |-> 0, s |-> 0]
    ELSE LET lenR == sig[4]
             lenS == sig[6 + lenR]
             r == bytesToCanonicalScalar(
                      asn1IntegerContent(SubSeq(sig, 5, 4 + lenR)))
             s == bytesToCanonicalScalar(
                      asn1IntegerContent(SubSeq(sig, 7 + lenR, 6 + lenR + lenS)))
         IN  IF ~r.ok \/ ScIsZero(r.s) # 0 \/ ~s.ok \/ ScIsZero(s.s) # 0
             THEN [ok |-> FALSE, r |-> 0, s |-> 0]
             ELSE [ok |-> TRUE, r |-> r.s, s |-> s.s]

\* A faulty bitcoin.VerifyASN1 that takes an s of any size.
BitcoinVerifyASN1AnyS(k, hash, sig) ==
    LET ps == parseASN1SignatureShitcoin(sig)
    IN  IF ~ps.ok THEN FALSE
        ELSE verify(k, hash, ScBytes(ps.r), ScBytes(ps.s)).err = ""

\* bitcoin.VerifyASN1
BitcoinVerifyASN1(k, hash, sig) ==
    LET ps == parseASN1SignatureShitcoin(sig)
    IN  IF ~ps.ok THEN FALSE
        ELSE IF IsGreaterThanHalfN(ps.s) # 0 THEN FALSE
        ELSE verify(k, hash, ScBytes(ps.r), ScBytes(ps.s)).err = ""
\* The sighash byte appended to a signature.
SighashBytes == {1, 9}

\* What is handed to the verifier after sign returned (r, s): the
\* signature with its sighash byte; the same with n - s for s; without the
\* sighash byte and with two bytes after it; with a zero byte too many
\* before r; with another tag and another length; and with r or s zero or
\* n.
SignaturesBIP0066(r, s) ==
    LET der == buildASN1Signature(r, s)
        rc  == SubSeq(asn1BigInt(r), 3, Len(asn1BigInt(r)))
    IN  {der \o <<b>> : b \in SighashBytes}
        \cup {buildASN1Signature(r, N - s) \o <<b>> : b \in SighashBytes}
        \cup {der, der \o <<1, 1>>}
        \cup {<<asn1Sequence, der[2] + 1, asn1Integer, Len(rc) + 1, 0>> \o rc
                  \o asn1BigInt(s) \o <<1>>,
              <<asn1Sequence + 1>> \o SubSeq(der, 2, Len(der)) \o <<1>>,
              <<asn1Sequence, der[2] + 1>> \o SubSeq(der, 3, Len(der)) \o <<1>>,
              <<asn1Sequence, der[2]>> \o asn1BigInt(s) \o asn1BigInt(r) \o <<1>>}
        \cup {buildASN1Signature(v, s) \o <<1>> : v \in {0, N}}
        \cup {buildASN1Signature(r, v) \o <<1>> : v \in {0, N}}

\* ok := bitcoin.VerifyASN1(pub, hash, sig), for the digest just signed.
VerifyBIP0066(sig) ==
    /\ pc = "idle"
    /\ Signed
    /\ prev' = res
    /\ res' = [op |-> "VerifyASN1BIP0066", h |-> res.h, sig |-> sig,
               ok |-> BitcoinVerifyASN1(key.publicKey, res.h, sig)]
    /\ UNCHANGED <<key, peer, pc, frame>>

NextBIP0066 ==
    \/ \E keyBytes \in VerifyKeyBytes : NewKey(keyBytes)
    \/ /\ res.op = "NewPrivateKey"
       /\ \E rand \in Readers, hBytes \in RepeatDigests : Sign(rand, hBytes)
    \/ SignLoop
    \/ /\ Signed
       /\ \E sig \in SignaturesBIP0066(res.r, res.s) : VerifyBIP0066(sig)

SpecBIP0066 == Init /\ [][NextBIP0066]_vars

\* sig is the strict DER encoding of (r, s) followed by one byte.
IsSignatureWithSighash(sig, r, s) ==
    /\ Len(sig) = Len(buildASN1Signature(r, s)) + 1
    /\ SubSeq(sig, 1, Len(sig) - 1) = buildASN1Signature(r, s)

-----------------------------------------------------------------------------
(* Key construction: private keys from bytes, public keys from encodings   *)
(* and from points, in any order.  key holds the last *PrivateKey          *)
(* returned and peer the last *PublicKey, NoKey standing for nil.          *)

\* The bytes handed to NewPrivateKey: 0, 1, 2, 77, n - 1, n, n + 1 and the
\* largest value in the size of a scalar, and strings of other sizes.
PrivateKeyInputs ==
    {ScBytes(0), ScBytes(1), ScBytes(2), ScBytes(77), ScBytes(N - 1),
     IntToBytes(N, ScalarSize), IntToBytes(N + 1, ScalarSize),
     IntToBytes(ByteBase ^ ScalarSize - 1, ScalarSize),
     << >>, <<1>>, <<0, 0, 1>>}

\* The encodings handed to NewPublicKey: compressed ones of every x with a
\* zero top byte, the identity, the generator and its negation
\* uncompressed, a pair that is not on the curve, and a string that is no
\* encoding.
PublicKeyInputs ==
    {<<prefix, 0, b>> : prefix \in {prefixCompressedEven, prefixCompressedOdd},
                        b \in Byte}
    \cup {<<prefixIdentity>>, UncompressedBytes(GeneratorPoint),
          UncompressedBytes(PointNegate(GeneratorPoint)),
          <<prefixUncompressed>> \o FeBytes(gX) \o FeBytes(gX), <<1, 2>>}

\* The points handed to NewPublicKeyFromPoint: the identity, the generator
\* and products s G as the multiplication leaves them (Z is not 1).
PublicKeyPoints ==
    {IdentityPoint, GeneratorPoint} \cup {ScalarBaseMult(s) : s \in 0 .. 8}

\* priv, err := NewPrivateKey(keyBytes)
NewPrivateKeyCall(keyBytes) ==
    /\ pc = "idle"
    /\ key' = NewPrivateKey(keyBytes).key
    /\ res' = [op |-> "NewPrivateKey", err |-> NewPrivateKey(keyBytes).err,
               input |-> keyBytes]
    /\ UNCHANGED <<peer, pc, frame, prev>>

\* pub, err := NewPublicKey(keyBytes)
NewPublicKeyCall(keyBytes) ==
    /\ pc = "idle"
    /\ peer' = NewPublicKey(keyBytes).pub
    /\ res' = [op |-> "NewPublicKey", err |-> NewPublicKey(keyBytes).err,
               input |-> keyBytes]
    /\ UNCHANGED <<key, pc, frame, prev>>

\* pub, err := NewPublicKeyFromPoint(point)
NewPublicKeyFromPointCall(point) ==
    /\ pc = "idle"
    /\ peer' = NewPublicKeyFromPoint(point).pub
    /\ res' = [op |-> "NewPublicKeyFromPoint",
               err |-> NewPublicKeyFromPoint(point).err, input |-> point]
    /\ UNCHANGED <<key, pc, frame, prev>>

NextKeys ==
    \/ \E keyBytes \in PrivateKeyInputs : NewPrivateKeyCall(keyBytes)
    \/ \E keyBytes \in PublicKeyInputs : NewPublicKeyCall(keyBytes)
    \/ \E point \in PublicKeyPoints : NewPublicKeyFromPointCall(point)

SpecKeys == Init /\ [][NextKeys]_vars

\* The uncompressed encoding of the affine point <<x, y>>.
AffineEncoding(a) ==
    <<prefixUncompressed>> \o IntToBytes(a[1], CoordSize)
                           \o IntToBytes(a[2], CoordSize)

\* A PublicKey holds a point of the curve that is not the identity, with
\* its uncompressed encoding.
PublicKeyHolds(pub) ==
    /\ pub.point.z # 0
    /\ (AffineOf(pub.point)[2] ^ 2) % P = (AffineOf(pub.point)[1] ^ 3 + feB) % P
    /\ pub.pointBytes = AffineEncoding(AffineOf(pub.point))

\* C18: every PrivateKey holds a scalar in [1, n) and the PublicKey of
\* scalar * G, and every PublicKey holds a point that is not the identity
\* with its uncompressed encoding; NewPrivateKey returns nil and an error
\* for bytes that are not of the size of a scalar, are zero or are n or
\* more, and otherwise the key of these bytes; NewPublicKey and
\* NewPublicKeyFromPoint return nil and an error for the point at
\* infinity.
C18_KeysAreValid ==
    /\ key # NoKey =>
          /\ key.scalar \in 1 .. (N - 1)
          /\ PublicKeyHolds(key.publicKey)
          /\ AffineOf(key.publicKey.point) = MultiplesOfG[key.scalar]
    /\ peer # NoKey => PublicKeyHolds(peer)
    /\ res.op = "NewPrivateKey" =>
          IF \/ Len(res.input) # ScalarSize
             \/ BytesToInt(res.input) = 0
             \/ BytesToInt(res.input) >= N
          THEN res.err # "" /\ key = NoKey
          ELSE res.err = "" /\ key # NoKey /\ key.scalar = BytesToInt(res.input)
    /\ (res.op = "NewPublicKey" /\ res.input = <<prefixIdentity>>) =>
          (res.err # "" /\ peer = NoKey)
    /\ (res.op = "NewPublicKeyFromPoint" /\ res.input.z = 0) =>
          (res.err # "" /\ peer = NoKey)
    /\ res.op \in {"NewPublicKey", "NewPublicKeyFromPoint"} =>
          (res.err = "" <=> peer # NoKey)

\* The private key of n - 1 is held, and the last call refused the
\* encoding of the point at infinity as a public key.
C18_Witness ==
    /\ key # NoKey
    /\ key.scalar = N - 1
    /\ res.op = "NewPublicKey"
    /\ res.input = <<prefixIdentity>>
    /\ res.err # ""
    /\ peer = NoKey

-----------------------------------------------------------------------------
(* point_mul_glv.go: the multiplication by the endomorphism               *)
(* (x, y) -> (beta x, y) = lambda (x, y), and scalarMultTrivial of         *)
(* point_test.go.  On the curve over F_163 of order 139: lambda = 42,      *)
(* beta = 104, and the short vectors of Algorithm 3.74 are (3, -10) and    *)
(* (13, 3).                                                                *)

negLambda == 97

beta == 104

negB1 == 10

bigB2 == 3

negB2 == 136

\* What a read through the argument p yields while the receiver holds v:
\* v itself when the receiver aliases p.
Arg(v, p, aliased) == IF aliased THEN v ELSE p

\* Scalar.Bits: the bits of s, least significant first.
ScBits(s) == [i \in 1 .. (ScalarSize * ByteBits) |-> (s \div (2 ^ (i - 1))) % 2]

\* The loop of scalarMultTrivial, from bit i down: q is doubled but before
\* the first bit, and p, read anew each time, or the identity is added.
\* The receiver v is written only after the loop.
RECURSIVE scalarMultTrivialLoop(_, _, _, _, _, _)
scalarMultTrivialLoop(q, sBits, i, v, p, aliased) ==
    IF i < 1 THEN q
    ELSE LET q1     == IF i # Len(sBits) THEN PointDouble(q) ELSE q
             addend == PointConditionalSelect(IdentityPoint,
                                              Arg(v, p, aliased), sBits[i])
         IN  Then(PointAdd(q1, addend),
                  LAMBDA w : scalarMultTrivialLoop(w, sBits, i - 1, v, p, aliased))

\* Point.scalarMultTrivial, called on a receiver that holds v.
scalarMultTrivial(v, s, p, aliased) ==
    scalarMultTrivialLoop(IdentityPoint, ScBits(s), ScalarSize * ByteBits,
                          v, p, aliased)

\* Scalar.splitVartime: c1 = b2 k / n and c2 = -b1 k / n, rounded down;
\* k2 = -c1 b1 - c2 b2 and k1 = k - k2 lambda.
splitVartime(s) ==
    LET c1 == (bigB2 * s) \div N
        c2 == (negB1 * s) \div N
        k2 == ScAdd(ScMultiply(c1, negB1), ScMultiply(c2, negB2))
    IN  [k1 |-> ScAdd(s, ScMultiply(k2, negLambda)), k2 |-> k2]

\* A faulty Point.mulBeta that multiplies Y instead of X.
mulBetaOnY(p) == [p EXCEPT !.y = FeMul(p.y, beta)]

\* Point.mulBeta
mulBeta(p) == [p EXCEPT !.x = FeMul(p.x, beta)]

\* The byte the loop of scalarMultVartimeGLV starts at (0-based): the
\* split scalars are taken to fit in half the bytes of a scalar and one
\* more.
glvOffset == ScalarSize \div 2 - 1

\* The first byte at or after off (0-based) where k1 or k2 is not zero;
\* ScalarSize if there is none.
RECURSIVE glvSkipZeroBytes(_, _, _)
glvSkipZeroBytes(k1Bytes, k2Bytes, off) ==
    IF k1Bytes[off + 1] # 0 \/ k2Bytes[off + 1] # 0 THEN off
    ELSE IF off + 1 = ScalarSize THEN ScalarSize
    ELSE glvSkipZeroBytes(k1Bytes, k2Bytes, off + 1)

\* The loop of scalarMultVartimeGLV over the bytes of k1 and k2.
RECURSIVE scalarMultVartimeGLVLoop(_, _, _, _, _, _)
scalarMultVartimeGLVLoop(pTbl, pPrimeTbl, v, k1Bytes, k2Bytes, i) ==
    IF i > Len(k1Bytes) THEN v
    ELSE LET v1 == IF i # 1 THEN doubleTimes(v, WindowBits) ELSE v
             v2 == ProjectiveSelectAndAddVartime(pTbl, v1,
                                                 k1Bytes[i] \div WindowBase)
             v3 == ProjectiveSelectAndAddVartime(pPrimeTbl, v2,
                                                 k2Bytes[i] \div WindowBase)
             v4 == doubleTimes(v3, WindowBits)
             v5 == ProjectiveSelectAndAddVartime(pTbl, v4,
                                                 k1Bytes[i] % WindowBase)
             v6 == ProjectiveSelectAndAddVartime(pPrimeTbl, v5,
                                                 k2Bytes[i] % WindowBase)
         IN  Then(v6, LAMBDA w : scalarMultVartimeGLVLoop(
                                     pTbl, pPrimeTbl, w, k1Bytes, k2Bytes, i + 1))

\* scalarMultVartimeGLV, once the scalars and the points have their
\* signs: the tables, v.Identity(), the leading zero bytes and the loop.
scalarMultVartimeGLVSigned(k1, k2, pee, peePrime) ==
    LET off == glvSkipZeroBytes(ScBytes(k1), ScBytes(k2), glvOffset)
    IN  IF off = ScalarSize THEN IdentityPoint
        ELSE scalarMultVartimeGLVLoop(
                 newProjectivePointMultTable(pee),
                 newProjectivePointMultTable(peePrime),
                 IdentityPoint,
                 SubSeq(ScBytes(k1), off + 1, ScalarSize),
                 SubSeq(ScBytes(k2), off + 1, ScalarSize), 1)

\* A faulty scalarMultVartimeGLV that negates k2 without negating
\* peePrime.
scalarMultVartimeGLVKeepsPeePrime(v, s, p, aliased) ==
    LET k   == splitVartime(s)
        pee == Arg(v, p, aliased)
    IN  scalarMultVartimeGLVSigned(
            ScConditionalNegate(k.k1, IsGreaterThanHalfN(k.k1)),
            ScConditionalNegate(k.k2, IsGreaterThanHalfN(k.k2)),
            PointConditionalNegate(pee, IsGreaterThanHalfN(k.k1)),
            mulBeta(pee))

\* Point.scalarMultVartimeGLV, called on a receiver that holds v: pee and
\* peePrime are copied from p before the receiver is written.
scalarMultVartimeGLV(v, s, p, aliased) ==
    LET k   == splitVartime(s)
        pee == Arg(v, p, aliased)
    IN  scalarMultVartimeGLVSigned(
            ScConditionalNegate(k.k1, IsGreaterThanHalfN(k.k1)),
            ScConditionalNegate(k.k2, IsGreaterThanHalfN(k.k2)),
            PointConditionalNegate(pee, IsGreaterThanHalfN(k.k1)),
            PointConditionalNegate(mulBeta(pee), IsGreaterThanHalfN(k.k2)))

\* Point.ScalarMult, called on a receiver that holds v: the table is
\* built from p before the receiver is written, and p is not read again.
ScalarMultOnto(v, s, p, aliased) == ScalarMult(s, Arg(v, p, aliased))

\* The points multiplied, as multiples m G: the identity, the generator,
\* and products as the fixed-base multiplication leaves them.
MulPointMultiples == {0, 1, 2, 42, 77, N - 1}

MulPoint(m) ==
    IF m = 0 THEN IdentityPoint
    ELSE IF m = 1 THEN GeneratorPoint
    ELSE ScalarBaseMult(m)

\* What a receiver holds before a call that does not alias.
MulReceivers == {IdentityPoint, GeneratorPoint}

\* s * p by the five multiplications, p being m G: with a receiver that
\* is p itself, or another point.
MulCall(s, m, v, aliased) ==
    /\ pc = "idle"
    /\ res.op = "none"
    /\ res' = [op |-> "ScalarMult", s |-> s, m |-> m, p |-> MulPoint(m),
               aliased |-> aliased,
               ct |-> ScalarMultOnto(v, s, MulPoint(m), aliased),
               glv |-> scalarMultVartimeGLV(v, s, MulPoint(m), aliased),
               trivial |-> scalarMultTrivial(v, s, MulPoint(m), aliased),
               base |-> ScalarBaseMult(s),
               baseVartime |-> scalarBaseMultVartime(s)]
    /\ UNCHANGED <<key, peer, pc, frame, prev>>

NextMul ==
    \E s \in Scalar, m \in MulPointMultiples :
        \/ MulCall(s, m, MulPoint(m), TRUE)
        \/ \E v \in MulReceivers : MulCall(s, m, v, FALSE)

SpecMul == Init /\ [][NextMul]_vars

\* The point v is k G, by the multiples of G in affine coordinates.
IsMultipleOfG(v, k) ==
    IF k % N = 0 THEN v.z = 0
    ELSE v.z # 0 /\ AffineOf(v) = MultiplesOfG[k % N]

\* C19: ScalarMult, the GLV multiplication and double-and-add return the
\* same point s * P for every scalar s and every point P, the identity
\* included, also when the receiver is P; for the generator the two
\* fixed-base multiplications return it too; 0 * P is the identity,
\* 1 * P is P and 2 * P is the double of P.
C19_ScalarMultsAgree ==
    res.op = "ScalarMult" =>
        /\ IsMultipleOfG(res.ct, res.s * res.m)
        /\ IsMultipleOfG(res.glv, res.s * res.m)
        /\ IsMultipleOfG(res.trivial, res.s * res.m)
        /\ PointEqual(res.ct, res.glv) = 1
        /\ PointEqual(res.ct, res.trivial) = 1
        /\ res.m = 1 => /\ PointEqual(res.base, res.ct) = 1
                        /\ PointEqual(res.baseVartime, res.ct) = 1
                        /\ IsMultipleOfG(res.base, res.s)
                        /\ IsMultipleOfG(res.baseVartime, res.s)
        /\ res.s = 0 => IsIdentity(res.ct) = 1 /\ IsIdentity(res.glv) = 1
        /\ res.s = 1 => PointEqual(res.ct, res.p) = 1
        /\ res.s = 2 => PointEqual(res.ct, PointDouble(res.p)) = 1

\* A product by the receiver's own point for which the GLV multiplication
\* negated the second half of the scalar and used both halves.
C19_Witness ==
    /\ res.op = "ScalarMult"
    /\ res.aliased
    /\ res.m = 77
    /\ splitVartime(res.s).k1 # 0
    /\ IsGreaterThanHalfN(splitVartime(res.s).k2) = 1
    /\ res.glv.z # 0

-----------------------------------------------------------------------------
(* Point.SetBytes on a receiver: the receiver is written in the branches  *)
(* that return it, after every check of the encoding.                      *)

\* v.SetBytes(src) on a receiver that holds v: what the receiver holds
\* afterwards, and whether nil and an error are returned.
PointSetBytes(v, src) ==
    IF SetBytes(src).ok
    THEN [v |-> SetBytes(src).pt, isNil |-> FALSE, err |-> ""]
    ELSE [v |-> v, isNil |-> TRUE, err |-> "malformed point encoding"]

\* The x coordinates of the uncompressed encodings tried: of the
\* generator, of no point of the curve, p - 1, p, and the largest value.
SetBytesXs == {gX, 1, P - 1, P, ByteBase ^ CoordSize - 1}

\* The strings handed to SetBytes: all of the sizes of the identity and
\* of a compressed point, those of the size of a point with one of the
\* x above and a prefix of an uncompressed, a compressed or no encoding,
\* and strings of other sizes.
SetBytesInputs ==
    BytesOfLen(IdentityPointSize)
    \cup BytesOfLen(CompressedPointSize)
    \cup {<<prefix>> \o IntToBytes(x, CoordSize) \o y :
              prefix \in {prefixUncompressed, prefixCompressedEven,
                          prefixUncompressed + 2},
              x \in SetBytesXs, y \in BytesOfLen(CoordSize)}
    \cup {<< >>, <<prefixIdentity, 0>>,
          <<prefixCompressedEven>> \o FeBytes(gX) \o <<0>>,
          UncompressedBytes(GeneratorPoint) \o <<0>>}

\* What the receiver holds before the call.
SetBytesReceivers == {IdentityPoint, GeneratorPoint, ScalarBaseMult(77)}

\* p, err := v.SetBytes(src)
SetBytesCall(v, src) ==
    /\ pc = "idle"
    /\ res.op = "none"
    /\ res' = [op |-> "SetBytes", src |-> src, before |-> v,
               after |-> PointSetBytes(v, src).v,
               isNil |-> PointSetBytes(v, src).isNil,
               err |-> PointSetBytes(v, src).err]
    /\ UNCHANGED <<key, peer, pc, frame, prev>>

NextSetBytes ==
    \E v \in SetBytesReceivers, src \in SetBytesInputs : SetBytesCall(v, src)

SpecSetBytes == Init /\ [][NextSetBytes]_vars

\* The integers x and y are coordinates of a point of the curve.
IsCurvePoint(x, y) ==
    /\ x < P
    /\ y < P
    /\ (y * y) % P = (x * x * x + feB) % P

\* The x and the y an encoding of the size of a point holds.
EncodedX(src) == BytesToInt(SubSeq(src, 2, 1 + CoordSize))

EncodedY(src) == BytesToInt(SubSeq(src, 2 + CoordSize, 1 + 2 * CoordSize))

\* The point a string encodes after SEC 1, section 2.3.4; NoKey if it
\* encodes none.
DecodedPoint(src) ==
    IF src = <<prefixIdentity>> THEN IdentityPoint
    ELSE IF /\ Len(src) = CompressedPointSize
            /\ src[1] \in {prefixCompressedEven, prefixCompressedOdd}
            /\ \E y \in 0 .. (P - 1) : IsCurvePoint(EncodedX(src), y)
    THEN [x |-> EncodedX(src),
          y |-> CHOOSE y \in 0 .. (P - 1) :
                    IsCurvePoint(EncodedX(src), y) /\ y % 2 = src[1] % 2,
          z |-> 1, isValid |-> TRUE]
    ELSE IF /\ Len(src) = PointSize
            /\ src[1] = prefixUncompressed
            /\ IsCurvePoint(EncodedX(src), EncodedY(src))
    THEN [x |-> EncodedX(src), y |-> EncodedY(src), z |-> 1, isValid |-> TRUE]
    ELSE NoKey

\* C20: SetBytes returns nil and an error and leaves the receiver as it
\* was for every string that is no encoding of a point: of another size
\* than 1, 3 or 5 bytes (1, 33, 65 in the library), with a prefix that
\* does not go with its size, with x or y of p or more, compressed with
\* an x that has no y, or uncompressed and not on the curve; otherwise it
\* returns the receiver, which then holds exactly the point encoded.
C20_SetBytes ==
    res.op = "SetBytes" =>
        IF DecodedPoint(res.src) = NoKey
        THEN res.isNil /\ res.err # "" /\ res.after = res.before
        ELSE ~res.isNil /\ res.err = "" /\ res.after = DecodedPoint(res.src)

\* An uncompressed pair with both coordinates below p that is not on the
\* curve was refused, and the receiver still holds the point it held.
C20_Witness ==
    /\ res.op = "SetBytes"
    /\ Len(res.src) = PointSize
    /\ res.src[1] = prefixUncompressed
    /\ EncodedX(res.src) < P
    /\ EncodedY(res.src) < P
    /\ res.isNil
    /\ res.before = ScalarBaseMult(77)
    /\ res.after = res.before

-----------------------------------------------------------------------------
(* The encodings of a point and their decoding *)

\* The multiples m G encoded: the identity, G, 2 G, 77 G and the
\* negations of G and of 2 G.
S11nMultiples == {0, 1, 2, 77, N - 2, N - 1}

\* m G as three computations leave it: the fixed-base multiplication, the
\* windowed multiplication of the generator, and the latter rescaled.
S11nPoints ==
    {ScalarBaseMult(m) : m \in S11nMultiples}
    \cup {ScalarMult(m, GeneratorPoint) : m \in S11nMultiples}
    \cup {IF m = 0 THEN IdentityPoint
          ELSE rescale(ScalarMult(m, GeneratorPoint)) : m \in S11nMultiples}

\* p and q are encoded, the encodings of p are decoded, and p is compared
\* with q.
S11nCall(p, q) ==
    /\ pc = "idle"
    /\ res.op = "none"
    /\ res' = [op |-> "S11n", p |-> p, q |-> q,
               pCompressed |-> CompressedBytes(p),
               pUncompressed |-> UncompressedBytes(p),
               qCompressed |-> CompressedBytes(q),
               fromCompressed |-> SetBytes(CompressedBytes(p)),
               fromUncompressed |-> SetBytes(UncompressedBytes(p)),
               equal |-> PointEqual(p, q)]
    /\ UNCHANGED <<key, peer, pc, frame, prev>>

NextS11n == \E p \in S11nPoints, q \in S11nPoints : S11nCall(p, q)

SpecS11n == Init /\ [][NextS11n]_vars

\* C21: both encodings of a point decode to a point Equal to it; the
\* identity is encoded as the one byte 0x00 in both forms and decodes to
\* the identity; the prefix of a compressed encoding is 0x03 iff the
\* affine y is odd and 0x02 otherwise; and two points are Equal iff
\* their compressed encodings are the same bytes, whatever the scaling of
\* their coordinates.
C21_S11nRoundTrip ==
    res.op = "S11n" =>
        /\ res.fromCompressed.ok
        /\ PointEqual(res.fromCompressed.pt, res.p) = 1
        /\ res.fromUncompressed.ok
        /\ PointEqual(res.fromUncompressed.pt, res.p) = 1
        /\ IF res.p.z = 0
           THEN /\ res.pCompressed = <<0>>
                /\ res.pUncompressed = <<0>>
                /\ res.fromCompressed.pt.z = 0
                /\ res.fromUncompressed.pt.z = 0
           ELSE /\ Len(res.pCompressed) = CompressedPointSize
                /\ Len(res.pUncompressed) = PointSize
                /\ res.pCompressed[1] = (IF AffineOf(res.p)[2] % 2 = 1 THEN 3 ELSE 2)
                /\ BytesToInt(SubSeq(res.pCompressed, 2, 1 + CoordSize))
                       = AffineOf(res.p)[1]
                /\ AffineOf(res.fromCompressed.pt) = AffineOf(res.p)
                /\ AffineOf(res.fromUncompressed.pt) = AffineOf(res.p)
        /\ (res.equal = 1) <=> (res.pCompressed = res.qCompressed)

\* Two points with an odd affine y that are Equal although their
\* coordinates are scaled differently, and whose Y as held is even.
C21_Witness ==
    /\ res.op = "S11n"
    /\ res.p.z # 0
    /\ res.p.z # res.q.z
    /\ res.equal = 1
    /\ AffineOf(res.p)[2] % 2 = 1
    /\ res.p.y % 2 = 0
    /\ res.pCompressed = res.qCompressed

-----------------------------------------------------------------------------
(* Sequences of operations on points.  Two points p and q are held; each  *)
(* operation writes its result to p, and p and q can be exchanged.         *)

\* Point.Subtract
PointSubtract(p, q) == PointAdd(p, PointNegate(q))

\* The operations of one sequence.
MaxPointOps == 4

\* The scalars multiplied with.
PointOpScalars == {0, 2, 77}

\* The encodings decoded: the generator compressed, its negation
\* uncompressed, and the identity.
PointOpEncodings ==
    {CompressedBytes(GeneratorPoint),
     UncompressedBytes(PointNegate(GeneratorPoint)), <<prefixIdentity>>}

\* What the operations of the API leave in the receiver p, given p and q.
PointOpResults(p, q) ==
    {IdentityPoint, GeneratorPoint, PointAdd(p, q), PointDouble(p),
     PointSubtract(p, q), PointNegate(p), mulBeta(p),
     PointConditionalSelect(p, q, 1)}
    \cup {ScalarMult(s, p) : s \in PointOpScalars}
    \cup {scalarMultVartimeGLV(p, s, p, TRUE) : s \in PointOpScalars}
    \cup {ScalarBaseMult(s) : s \in PointOpScalars}
    \cup {SetBytes(src).pt : src \in PointOpEncodings}

\* The first points: p := NewGeneratorPoint(), q := NewIdentityPoint().
PointOpBegin ==
    /\ pc = "idle"
    /\ res.op = "none"
    /\ res' = [op |-> "Point", p |-> GeneratorPoint, q |-> IdentityPoint, n |-> 0]
    /\ UNCHANGED <<key, peer, pc, frame, prev>>

\* One operation with the receiver p.
PointOp(result) ==
    /\ pc = "idle"
    /\ res.op = "Point"
    /\ res.n < MaxPointOps
    /\ res' = [res EXCEPT !.p = result, !.n = res.n + 1]
    /\ UNCHANGED <<key, peer, pc, frame, prev>>

\* p and q are exchanged.
PointOpExchange ==
    /\ pc = "idle"
    /\ res.op = "Point"
    /\ res.n < MaxPointOps
    /\ res' = [res EXCEPT !.p = res.q, !.q = res.p, !.n = res.n + 1]
    /\ UNCHANGED <<key, peer, pc, frame, prev>>

NextPointOps ==
    \/ PointOpBegin
    \/ /\ res.op = "Point"
       /\ \E result \in PointOpResults(res.p, res.q) : PointOp(result)
    \/ PointOpExchange

SpecPointOps == Init /\ [][NextPointOps]_vars

\* The coordinates are those of the identity, or satisfy
\* Y^2 Z = X^3 + 7 Z^3, over the integers modulo p.
SatisfiesCurve(v) ==
    \/ v.z = 0
    \/ (v.y * v.y * v.z) % P = (v.x * v.x * v.x + 7 * v.z * v.z * v.z) % P

\* C22: after any sequence of operations every point held is the identity
\* (Z = 0) or satisfies Y^2 Z = X^3 + 7 Z^3.
C22_PointsOnCurve ==
    res.op = "Point" =>
        /\ res.p.isValid /\ SatisfiesCurve(res.p)
        /\ res.q.isValid /\ SatisfiesCurve(res.q)

\* After the last operation, two points that are not the identity and are
\* not rescaled, with different x.
C22_Witness ==
    /\ res.op = "Point"
    /\ res.n = MaxPointOps
    /\ res.p.z \notin {0, 1}
    /\ res.q.z \notin {0, 1}
    /\ AffineOf(res.p)[1] # AffineOf(res.q)[1]

-----------------------------------------------------------------------------
(* point_table.go: the generator table under concurrent fixed-base        *)
(* multiplications.  The table is the value of a package variable; its    *)
(* initialiser fills it window by window.  frame holds the table and      *)
(* res the goroutines that multiply.                                       *)

\* A faulty start in which the callers do not wait for the initialiser of
\* the package variable.
packageInitialisedOnDemand == pc \in {"load", "run"}

\* var generatorAffineTable = newLargeAffinePointMultTable(...): the
\* initialiser of a package variable has returned before a function of
\* the package is called.
packageInitialised == pc = "run"

\* The goroutines that call ScalarBaseMult and scalarBaseMultVartime.
TableReaders == 1 .. 2

\* The scalars they multiply with.
TableReaderScalars == {0, 1, 77, N - 1}

IdleReader ==
    [st |-> "idle", s |-> 0, vartime |-> FALSE, v |-> IdentityPoint, k |-> 0,
     sawUnwritten |-> FALSE]

\* A window of the table that is not written yet: the zero value.
UnwrittenWindow == [j \in 1 .. TableEntries |-> [x |-> 0, y |-> 0]]

\* The program starts: the initialiser begins with base = G.
TableLoadBegin ==
    /\ pc = "idle"
    /\ res.op = "none"
    /\ pc' = "load"
    /\ frame' = [tbl |-> << >>, base |-> GeneratorPoint, loads |-> 1]
    /\ res' = [op |-> "table", readers |-> [r \in TableReaders |-> IdleReader]]
    /\ UNCHANGED <<key, peer, prev>>

\* One pass of the loop of newLargeAffinePointMultTable: a window is
\* written, and the base is doubled WindowBits times and rescaled.  After
\* the last window the initialiser returns.
TableLoadWindow ==
    /\ pc = "load"
    /\ Len(frame.tbl) < ScalarSize * 2
    /\ frame' = [frame EXCEPT
                   !.tbl = frame.tbl \o <<buildAffineWindow(
                               <<[x |-> frame.base.x, y |-> frame.base.y]>>,
                               frame.base, frame.base)>>,
                   !.base = rescale(doubleTimes(frame.base, WindowBits))]
    /\ pc' = IF Len(frame.tbl) + 1 = ScalarSize * 2 THEN "run" ELSE "load"
    /\ UNCHANGED <<key, peer, res, prev>>

\* A goroutine calls ScalarBaseMult or scalarBaseMultVartime: v.Identity().
TableReaderCall(r, s, vartime) ==
    /\ packageInitialised
    /\ res.op = "table"
    /\ res.readers[r].st = "idle"
    /\ res' = [res EXCEPT !.readers[r] =
                   [st |-> "run", s |-> s, vartime |-> vartime,
                    v |-> IdentityPoint, k |-> 0, sawUnwritten |-> FALSE]]
    /\ UNCHANGED <<key, peer, pc, frame, prev>>

\* The window with the 1-based index idx, as a goroutine reads it now.
TableWindowRead(idx) ==
    IF idx <= Len(frame.tbl) THEN frame.tbl[idx] ELSE UnwrittenWindow

\* The next lookup of a goroutine: lookup k + 1 takes the high half of
\* byte k / 2 + 1 when k is even and its low half otherwise, in the
\* window counted down from the last.
TableReaderLookup(r) ==
    /\ res.op = "table"
    /\ res.readers[r].st = "run"
    /\ LET rd   == res.readers[r]
           b    == ScBytes(rd.s)[rd.k \div 2 + 1]
           idx  == IF rd.k % 2 = 0 THEN b \div WindowBase ELSE b % WindowBase
           tIdx == ScalarSize * 2 - rd.k
           win  == TableWindowRead(tIdx)
           v    == IF rd.vartime THEN AffineSelectAndAddVartime(win, rd.v, idx)
                   ELSE AffineSelectAndAdd(win, rd.v, idx)
       IN  res' = [res EXCEPT !.readers[r] =
                       [rd EXCEPT !.v = v, !.k = rd.k + 1,
                                  !.sawUnwritten = rd.sawUnwritten
                                                   \/ tIdx > Len(frame.tbl),
                                  !.st = IF rd.k + 1 = ScalarSize * 2
                                         THEN "done" ELSE "run"]]
    /\ UNCHANGED <<key, peer, pc, frame, prev>>

\* The call returns v.
TableReaderReturn(r) ==
    /\ res.op = "table"
    /\ res.readers[r].st = "done"
    /\ res' = [res EXCEPT !.readers[r] = IdleReader]
    /\ UNCHANGED <<key, peer, pc, frame, prev>>

NextTable ==
    \/ TableLoadBegin
    \/ TableLoadWindow
    \/ \E r \in TableReaders, s \in TableReaderScalars, vartime \in BOOLEAN :
           TableReaderCall(r, s, vartime)
    \/ \E r \in TableReaders : TableReaderLookup(r)
    \/ \E r \in TableReaders : TableReaderReturn(r)

SpecTable == Init /\ [][NextTable]_vars

\* C23: the generator table is built once and wholly before a fixed-base
\* multiplication reads it, and is not written afterwards: no goroutine
\* runs while it is built, none reads a window that is not written, the
\* table the goroutines read is the complete table, and each of them
\* returns s G.
C23_TableBuiltBeforeRead ==
    res.op = "table" =>
        /\ frame.loads = 1
        /\ pc = "load" => \A r \in TableReaders : res.readers[r].st = "idle"
        /\ pc = "run" => frame.tbl = generatorAffineTable
        /\ \A r \in TableReaders :
               /\ ~res.readers[r].sawUnwritten
               /\ res.readers[r].st = "done" =>
                      IsMultipleOfG(res.readers[r].v, res.readers[r].s)

\* Two goroutines are in the middle of their multiplications, one of
\* each kind.
C23_Witness ==
    /\ res.op = "table"
    /\ res.readers[1].st = "run"
    /\ res.readers[1].k = 1
    /\ ~res.readers[1].vartime
    /\ res.readers[2].st = "run"
    /\ res.readers[2].k = 3
    /\ res.readers[2].vartime
    /\ res.readers[2].s = 77

-----------------------------------------------------------------------------
(* The split of a scalar for the multiplication by the endomorphism *)

\* k1, k2 := k.splitVartime()
SplitCall(k) ==
    /\ pc = "idle"
    /\ res.op = "none"
    /\ res' = [op |-> "splitVartime", k |-> k,
               k1 |-> splitVartime(k).k1, k2 |-> splitVartime(k).k2]
    /\ UNCHANGED <<key, peer, pc, frame, prev>>

NextSplit == \E k \in Scalar : SplitCall(k)

SpecSplit == Init /\ [][NextSplit]_vars

\* lambda, from its negation modulo n.
lambdaOfSplit == N - negLambda

\* The absolute value of a half: the half, or its negation when it is
\* greater than n/2.
SplitAbs(a) == IF 2 * a > N THEN N - a ELSE a

\* The bound of a half: the least integer whose square is n or more,
\* 2^128 in the library, whose n is just below 2^256.
splitBound == CHOOSE b \in 1 .. N : b * b >= N /\ (b - 1) * (b - 1) < N

\* C24: for every scalar k the split returns k1 and k2 with
\* k = k1 + k2 lambda modulo n, and both halves, each replaced by its
\* negation when it is greater than n/2, are below the bound of half a
\* scalar (2^128: the two upper limbs are zero).
C24_SplitIsShort ==
    res.op = "splitVartime" =>
        /\ (res.k1 + res.k2 * lambdaOfSplit) % N = res.k
        /\ SplitAbs(res.k1) < splitBound
        /\ SplitAbs(res.k2) < splitBound

\* A scalar was split into two halves that are not zero, the second of
\* them greater than n/2.
C24_Witness ==
    /\ res.op = "splitVartime"
    /\ res.k1 # 0
    /\ 2 * res.k2 > N
    /\ (res.k1 + res.k2 * lambdaOfSplit) % N = res.k

\* The quotient a / b rounded to the nearest integer.
RoundDiv(a, b) == (2 * a + b) \div (2 * b)

\* C25: the split computes c1 = round(b2 k / n) and c2 = round(-b1 k / n),
\* each rounded to the nearest integer, then k2 = c1 (-b1) + c2 (-b2) and
\* k1 = k - k2 lambda modulo n.
C25_SplitRounds ==
    res.op = "splitVartime" =>
        /\ res.k2 = (RoundDiv(bigB2 * res.k, N) * negB1
                     + RoundDiv(negB1 * res.k, N) * negB2) % N
        /\ res.k1 = (res.k + res.k2 * negLambda) % N

\* A scalar was split for which b2 k / n is rounded up to the nearest
\* integer.
C25_Witness ==
    /\ res.op = "splitVartime"
    /\ RoundDiv(bigB2 * res.k, N) # (bigB2 * res.k) \div N
    /\ res.k1 = (res.k + res.k2 * negLambda) % N

-----------------------------------------------------------------------------
(* The contents of the generator table, generated and re-interleaved *)

\* Entries of a byte-wide window: the multiples 1 .. ByteBase - 1.
HugeTableEntries == ByteBase - 1

\* generatorHugeAffineTable: window i (0-based) holds the multiples
\* 1 .. ByteBase - 1 of ByteBase^i G, as the embedded file gives them.
generatorHugeAffineTable ==
    [i \in 1 .. ScalarSize |->
        [j \in 1 .. HugeTableEntries |->
            [x |-> MultiplesOfG[(j * ByteBase ^ (i - 1)) % N][1],
             y |-> MultiplesOfG[(j * ByteBase ^ (i - 1)) % N][2]]]]

\* A faulty generatorSmallAffineTable that fills the odd windows from the
\* same entries as the even ones.
generatorSmallAffineTableFirstEntries ==
    [w \in 1 .. (ScalarSize * 2) |->
        [j \in 1 .. TableEntries |->
            generatorHugeAffineTable[(w - 1) \div 2 + 1][j]]]

\* generatorSmallAffineTable: window 2 i takes the first entries of the
\* byte-wide window i, and window 2 i + 1 the entries with the 0-based
\* index (WindowBase + j * WindowBase) - 1 (here windows and entries are
\* 1-based).
generatorSmallAffineTable ==
    [w \in 1 .. (ScalarSize * 2) |->
        [j \in 1 .. TableEntries |->
            IF (w - 1) % 2 = 0
            THEN generatorHugeAffineTable[(w - 1) \div 2 + 1][j]
            ELSE generatorHugeAffineTable[(w - 1) \div 2 + 1]
                     [(WindowBase + (j - 1) * WindowBase) - 1 + 1]]]

\* The points a table is generated from, as multiples m G: the generator
\* itself, and products with Z = 1 and with another Z.
TablePointMultiples == {1, 2, 3, 5, 42, 77, 100, N - 1}

TablePoint(m, rescaled) ==
    IF m = 1 THEN GeneratorPoint
    ELSE IF rescaled THEN rescale(ScalarBaseMult(m)) ELSE ScalarBaseMult(m)

\* An entry of a generated table is read: window w, entry j (0-based).
TableEntryOfGenerated(m, rescaled, w, j) ==
    /\ pc = "idle"
    /\ res.op = "none"
    /\ res' = [op |-> "tableEntry", from |-> "generated", m |-> m, w |-> w,
               j |-> j, z |-> TablePoint(m, rescaled).z,
               entry |-> IF m = 1 THEN generatorAffineTable[w + 1][j + 1]
                         ELSE newLargeAffinePointMultTable(
                                  TablePoint(m, rescaled))[w + 1][j + 1]]
    /\ UNCHANGED <<key, peer, pc, frame, prev>>

\* An entry of the re-interleaved table of the generator is read.
TableEntryOfInterleaved(w, j) ==
    /\ pc = "idle"
    /\ res.op = "none"
    /\ res' = [op |-> "tableEntry", from |-> "interleaved", m |-> 1, w |-> w,
               j |-> j, z |-> 1,
               entry |-> generatorSmallAffineTable[w + 1][j + 1]]
    /\ UNCHANGED <<key, peer, pc, frame, prev>>

NextTableEntries ==
    \E w \in 0 .. (ScalarSize * 2 - 1), j \in 0 .. (TableEntries - 1) :
        \/ \E m \in TablePointMultiples, rescaled \in BOOLEAN :
               TableEntryOfGenerated(m, rescaled, w, j)
        \/ TableEntryOfInterleaved(w, j)

SpecTableEntries == Init /\ [][NextTableEntries]_vars

-----------------------------------------------------------------------------
(* SelectAndAdd and SelectAndAddVartime *)

\* The accumulators, as multiples a G: the identity, and products as the
\* fixed-base multiplication leaves them.
SelectSums == {0, 1, 2, 3, 4, 77, N - 2, N - 1}

SelectSum(a) == IF a = 0 THEN IdentityPoint ELSE ScalarBaseMult(a)

\* The points the projective tables are made of, as multiples m G.
SelectTablePoints == {1, 2, 77, N - 1}

\* tbl.SelectAndAdd(sum, idx) and tbl.SelectAndAddVartime(sum, idx) for
\* the projective table of m G.
ProjectiveSelectCall(m, a, idx) ==
    /\ pc = "idle"
    /\ res.op = "none"
    /\ res' = [op |-> "SelectAndAdd", table |-> "projective", m |-> m, a |-> a,
               idx |-> idx, sum |-> SelectSum(a),
               ct |-> ProjectiveSelectAndAdd(
                          newProjectivePointMultTable(MulPoint(m)),
                          SelectSum(a), idx),
               vartime |-> ProjectiveSelectAndAddVartime(
                               newProjectivePointMultTable(MulPoint(m)),
                               SelectSum(a), idx)]
    /\ UNCHANGED <<key, peer, pc, frame, prev>>

\* The same for window w (0-based) of the affine table of the generator,
\* the table of WindowBase^w G.
AffineSelectCall(w, a, idx) ==
    /\ pc = "idle"
    /\ res.op = "none"
    /\ res' = [op |-> "SelectAndAdd", table |-> "affine",
               m |-> (WindowBase ^ w) % N, a |-> a, idx |-> idx,
               sum |-> SelectSum(a),
               ct |-> AffineSelectAndAdd(generatorAffineTable[w + 1],
                                         SelectSum(a), idx),
               vartime |-> AffineSelectAndAddVartime(
                               generatorAffineTable[w + 1], SelectSum(a), idx)]
    /\ UNCHANGED <<key, peer, pc, frame, prev>>

NextSelect ==
    \E a \in SelectSums, idx \in 0 .. TableEntries :
        \/ \E m \in SelectTablePoints : ProjectiveSelectCall(m, a, idx)
        \/ \E w \in 0 .. (ScalarSize * 2 - 1) : AffineSelectCall(w, a, idx)

SpecSelect == Init /\ [][NextSelect]_vars

\* C27: for every table, accumulator and index, SelectAndAdd and
\* SelectAndAddVartime yield the same point, sum + idx P; for the index 0
\* the value of the accumulator is left as it was: by the affine table
\* the very coordinates, the mixed addition being discarded, and by the
\* projective table the same point, the identity being added.
C27_SelectAndAdd ==
    res.op = "SelectAndAdd" =>
        /\ IsMultipleOfG(res.ct, res.a + res.idx * res.m)
        /\ IsMultipleOfG(res.vartime, res.a + res.idx * res.m)
        /\ PointEqual(res.ct, res.vartime) = 1
        /\ res.idx = 0 =>
              /\ res.vartime = res.sum
              /\ PointEqual(res.ct, res.sum) = 1
              /\ res.table = "affine" => res.ct = res.sum

\* The index 0 with the affine table and an accumulator that is not the
\* identity.
C27_Witness ==
    /\ res.op = "SelectAndAdd"
    /\ res.table = "affine"
    /\ res.idx = 0
    /\ res.a = 77
    /\ res.ct = res.sum

-----------------------------------------------------------------------------
(* The operations of the constant time multiplications *)

\* What a multiplication does to points and tables, in order: a doubling,
\* the read of an entry of a window table, an addition, a selection.
PointOperation(op, table, entry) == [op |-> op, table |-> table, entry |-> entry]

\* v.doubleComplete(v), k times.
doubleTimesOps(k) == [j \in 1 .. k |-> PointOperation("doubleComplete", 0, 0)]

\* lookupProjectivePoint: every entry of the table is read.
RECURSIVE lookupProjectivePointOps(_, _)
lookupProjectivePointOps(idx, i) ==
    IF i > TableEntries THEN << >>
    ELSE <<PointOperation("read", 0, i)>> \o lookupProjectivePointOps(idx, i + 1)

\* A variable time use of the table, which leaves the index 0 out and
\* reads the one entry.
ProjectiveSelectAndAddVartimeOps(idx) ==
    IF idx = 0 THEN << >>
    ELSE <<PointOperation("read", 0, idx), PointOperation("addComplete", 0, 0)>>

\* projectivePointMultTable.SelectAndAdd: the scan, then the addition.
ProjectiveSelectAndAddOps(idx) ==
    lookupProjectivePointOps(idx, 1) \o <<PointOperation("addComplete", 0, 0)>>

\* lookupAffinePoint on window tableIndex: every entry is read.
RECURSIVE lookupAffinePointOps(_, _, _)
lookupAffinePointOps(tableIndex, idx, i) ==
    IF i > TableEntries THEN << >>
    ELSE <<PointOperation("read", tableIndex, i)>>
             \o lookupAffinePointOps(tableIndex, idx, i + 1)

\* affinePointMultTable.SelectAndAdd: the scan, the mixed addition, and
\* the selection between its result and the accumulator.
AffineSelectAndAddOps(tableIndex, idx) ==
    lookupAffinePointOps(tableIndex, idx, 1)
        \o <<PointOperation("addMixed", tableIndex, 0),
             PointOperation("select", tableIndex, 0)>>

\* One pass of the loop of Point.ScalarMult, on byte i of the scalar.
scalarMultPass(tbl, v, b, i) ==
    ProjectiveSelectAndAdd(
        tbl,
        doubleTimes(ProjectiveSelectAndAdd(
                        tbl,
                        IF i # 1 THEN doubleTimes(v, WindowBits) ELSE v,
                        b \div WindowBase),
                    WindowBits),
        b % WindowBase)

scalarMultPassOps(b, i) ==
    (IF i # 1 THEN doubleTimesOps(WindowBits) ELSE << >>)
        \o ProjectiveSelectAndAddOps(b \div WindowBase)
        \o doubleTimesOps(WindowBits)
        \o ProjectiveSelectAndAddOps(b % WindowBase)

\* One pass of the loop of Point.ScalarBaseMult, on byte i of the scalar,
\* where tableIndex (1-based) is the window of the high half.
scalarBaseMultPass(v, b, tableIndex) ==
    AffineSelectAndAdd(
        generatorAffineTable[tableIndex - 1],
        AffineSelectAndAdd(generatorAffineTable[tableIndex], v, b \div WindowBase),
        b % WindowBase)

scalarBaseMultPassOps(b, tableIndex) ==
    AffineSelectAndAddOps(tableIndex, b \div WindowBase)
        \o AffineSelectAndAddOps(tableIndex - 1, b % WindowBase)

\* The scalars the runs of all scalars are set against.
TraceScalars == {0, 1, WindowBase, 77, N - 1}

\* The point of Point.ScalarMult.
TracePoint == MulPoint(77)

\* Two runs of one multiplication side by side, on the scalars s and t:
\* the accumulators are the identity and nothing has been done.
TraceBegin(fn, s, t) ==
    /\ pc = "idle"
    /\ res.op = "none"
    /\ res' = [op |-> "trace", fn |-> fn, s |-> <<s, t>>, i |-> 1,
               v |-> <<IdentityPoint, IdentityPoint>>,
               ops |-> << << >>, << >> >>]
    /\ UNCHANGED <<key, peer, pc, frame, prev>>

\* Both runs of Point.ScalarMult take their next byte.
TraceScalarMultPass ==
    /\ res.op = "trace"
    /\ res.fn = "ScalarMult"
    /\ res.i <= ScalarSize
    /\ res' = [res EXCEPT
                 !.i = @ + 1,
                 !.v = [r \in 1 .. 2 |->
                          scalarMultPass(newProjectivePointMultTable(TracePoint),
                                         res.v[r], ScBytes(res.s[r])[res.i],
                                         res.i)],
                 !.ops = [r \in 1 .. 2 |->
                            res.ops[r]
                              \o scalarMultPassOps(ScBytes(res.s[r])[res.i], res.i)]]
    /\ UNCHANGED <<key, peer, pc, frame, prev>>

\* Both runs of Point.ScalarBaseMult take their next byte.
TraceScalarBaseMultPass ==
    /\ res.op = "trace"
    /\ res.fn = "ScalarBaseMult"
    /\ res.i <= ScalarSize
    /\ res' = [res EXCEPT
                 !.i = @ + 1,
                 !.v = [r \in 1 .. 2 |->
                          scalarBaseMultPass(res.v[r], ScBytes(res.s[r])[res.i],
                                             2 * ScalarSize - 2 * (res.i - 1))],
                 !.ops = [r \in 1 .. 2 |->
                            res.ops[r]
                              \o scalarBaseMultPassOps(ScBytes(res.s[r])[res.i],
                                                       2 * ScalarSize - 2 * (res.i - 1))]]
    /\ UNCHANGED <<key, peer, pc, frame, prev>>

NextTrace ==
    \/ \E fn \in {"ScalarMult", "ScalarBaseMult"}, s \in Scalar, t \in TraceScalars :
           TraceBegin(fn, s, t)
    \/ TraceScalarMultPass
    \/ TraceScalarBaseMultPass

SpecTrace == Init /\ [][NextTrace]_vars

\* The number of operations named op in a sequence of operations.
OpCount(ops, op) == Cardinality({j \in 1 .. Len(ops) : ops[j].op = op})

\* The reads between two additions: every entry of one table, in order.
IsFullScan(ops, from) ==
    \A e \in 1 .. TableEntries :
        /\ ops[from + e - 1].op = "read"
        /\ ops[from + e - 1].entry = e
        /\ ops[from + e - 1].table = ops[from].table

\* C28: the operations on points and the table entries read by
\* ScalarMult and by ScalarBaseMult are the same for any two scalars, at
\* every point of the run; a finished ScalarMult has made one lookup per
\* window, each a scan of all the entries, as many complete additions,
\* and WindowBits doublings before every window but the first; a finished
\* ScalarBaseMult has made one full scan and one mixed addition per
\* window and no doubling, windows of value zero included.
C28_SameOperations ==
    res.op = "trace" =>
        /\ res.ops[1] = res.ops[2]
        /\ res.i > ScalarSize =>
              \A r \in 1 .. 2 :
                  /\ OpCount(res.ops[r], "read") = 2 * ScalarSize * TableEntries
                  /\ \A j \in 1 .. Len(res.ops[r]) :
                         (res.ops[r][j].op = "read" /\ res.ops[r][j].entry = 1)
                             => IsFullScan(res.ops[r], j)
                  /\ res.fn = "ScalarMult" =>
                        /\ OpCount(res.ops[r], "addComplete") = 2 * ScalarSize
                        /\ OpCount(res.ops[r], "doubleComplete")
                               = WindowBits * (2 * ScalarSize - 1)
                        /\ res.ops[r][1].op = "read"
                        /\ OpCount(res.ops[r], "addMixed") = 0
                  /\ res.fn = "ScalarBaseMult" =>
                        /\ OpCount(res.ops[r], "addMixed") = 2 * ScalarSize
                        /\ OpCount(res.ops[r], "doubleComplete") = 0
                        /\ OpCount(res.ops[r], "addComplete") = 0

\* Two finished runs of ScalarMult on different scalars, one of them
\* zero, with their different products.
C28_Witness ==
    /\ res.op = "trace"
    /\ res.fn = "ScalarMult"
    /\ res.i > ScalarSize
    /\ res.s = <<100, 0>>
    /\ IsMultipleOfG(res.v[1], 100 * 77)
    /\ res.v[2].z = 0

-----------------------------------------------------------------------------
(* Element.SetCanonicalBytes: the range check on saturated limbs *)

\* The limbs of the saturated representation, here of one byte each.
SaturatedLimbs == 4

\* The prime in the shape of p = 2^256 - 2^32 - 977, at SaturatedLimbs
\* limbs of ByteBits bits: every limb but the least significant is all
\* ones.
satP == ByteBase ^ SaturatedLimbs - 2 ^ (ByteBits \div 2) - 1

\* The limbs of the prime, least significant first.
mSat == [i \in 1 .. SaturatedLimbs |-> (satP \div ByteBase ^ (i - 1)) % ByteBase]

\* helpers.BytesToSaturated: the limbs of a big-endian byte string, least
\* significant first.
BytesToSaturated(src) == [i \in 1 .. SaturatedLimbs |-> src[SaturatedLimbs + 1 - i]]

\* A faulty saturatedInRange that lets a limb equal to the limb of the
\* prime through.
RECURSIVE saturatedInRangeOrEqual(_, _, _)
saturatedInRangeOrEqual(a, i, ok) ==
    IF i < 1 THEN ok
    ELSE saturatedInRangeOrEqual(a, i - 1, ok \/ a[i] <= mSat[i])

\* saturatedInRange: from the most significant limb down, whether some
\* limb is below the limb of the prime.
RECURSIVE saturatedInRange(_, _, _)
saturatedInRange(a, i, ok) ==
    IF i < 1 THEN ok
    ELSE saturatedInRange(a, i - 1, ok \/ a[i] < mSat[i])

\* The value of saturated limbs.
RECURSIVE SaturatedValue(_, _)
SaturatedValue(a, i) ==
    IF i > SaturatedLimbs THEN 0
    ELSE a[i] + ByteBase * SaturatedValue(a, i + 1)

\* Element.setSaturated on the receiver fe: whether the limbs are in
\* range, and the receiver afterwards.
setSaturated(fe, a) ==
    IF ~saturatedInRange(a, SaturatedLimbs, FALSE)
    THEN [ok |-> FALSE, fe |-> fe]
    ELSE [ok |-> TRUE, fe |-> SaturatedValue(a, 1)]

\* Element.SetCanonicalBytes on the receiver fe: the element returned, or
\* "nil" with the error, and the receiver afterwards.
SetCanonicalBytes(fe, src) ==
    LET set == setSaturated(fe, BytesToSaturated(src))
    IN  IF ~set.ok
        THEN [ret |-> "nil", err |-> "internal/field: value out of range",
              fe |-> set.fe]
        ELSE [ret |-> "fe", err |-> "nil", fe |-> set.fe]

\* The value the receiver holds before the call.
CanonicalReceivers == {9}

SetCanonicalBytesCall(fe, src) ==
    /\ pc = "idle"
    /\ res.op = "none"
    /\ res' = [op |-> "SetCanonicalBytes", src |-> src, before |-> fe,
               inRange |-> saturatedInRange(BytesToSaturated(src),
                                            SaturatedLimbs, FALSE),
               out |-> SetCanonicalBytes(fe, src)]
    /\ UNCHANGED <<key, peer, pc, frame, prev>>

NextCanonical ==
    /\ res.op = "none"
    /\ \E fe \in CanonicalReceivers, src \in BytesOfLen(SaturatedLimbs) :
           SetCanonicalBytesCall(fe, src)

SpecCanonical == Init /\ [][NextCanonical]_vars

\* C29: SetCanonicalBytes accepts a big-endian input exactly when its
\* value is below p, the test on the limbs being true exactly for the
\* values below p; an accepted input sets the receiver to its value, and
\* a rejected one returns nil and an error and leaves the receiver as it
\* was.
C29_SetCanonicalBytes ==
    res.op = "SetCanonicalBytes" =>
        /\ res.inRange <=> BytesToInt(res.src) < satP
        /\ res.out.err = "nil" <=> BytesToInt(res.src) < satP
        /\ res.out.err = "nil" =>
              /\ res.out.ret = "fe"
              /\ res.out.fe = BytesToInt(res.src)
        /\ res.out.err # "nil" =>
              /\ res.out.ret = "nil"
              /\ res.out.fe = res.before

\* The prime itself is rejected and the receiver keeps its value.
C29_Witness ==
    /\ res.op = "SetCanonicalBytes"
    /\ BytesToInt(res.src) = satP
    /\ res.out.err # "nil"
    /\ res.out.fe = 9

-----------------------------------------------------------------------------
(* Scalar.IsGreaterThanHalfN *)

IsGreaterThanHalfNCall(s) ==
    /\ pc = "idle"
    /\ res.op = "none"
    /\ res' = [op |-> "IsGreaterThanHalfN", s |-> s,
               sub |-> subHalfN(ScSaturated(s), 1, 0, 0),
               isGt |-> IsGreaterThanHalfN(s)]
    /\ UNCHANGED <<key, peer, pc, frame, prev>>

NextHalfN == \E s \in Scalar : IsGreaterThanHalfNCall(s)

SpecHalfN == Init /\ [][NextHalfN]_vars

\* C30: for every scalar s below n, IsGreaterThanHalfN(s) is 1 when
\* s > n/2 and 0 otherwise; the borrow of s - n/2 is 1 exactly when
\* s < n/2; the result is 0 for n/2 and n/2 - 1, and 1 for n/2 + 1 and
\* n/2 + 2.
C30_IsGreaterThanHalfN ==
    res.op = "IsGreaterThanHalfN" =>
        /\ res.isGt = (IF 2 * res.s > N THEN 1 ELSE 0)
        /\ res.sub.borrow = (IF 2 * res.s < N - 1 THEN 1 ELSE 0)
        /\ res.s \in {(N - 1) \div 2, (N - 1) \div 2 - 1} => res.isGt = 0
        /\ res.s \in {(N - 1) \div 2 + 1, (N - 1) \div 2 + 2} => res.isGt = 1

\* n/2 itself: no borrow, and the difference is zero.
C30_Witness ==
    /\ res.op = "IsGreaterThanHalfN"
    /\ res.s = (N - 1) \div 2
    /\ res.sub.borrow = 0
    /\ res.isGt = 0

=============================================================================
